---- MODULE Spec2Model ----
(***************************************************************************)
(* PulseGuard backend: the check cycle (monitoring/tasks/check_runner.py), *)
(* the probe (monitoring/services/check_service.py), the status row and    *)
(* the credit ledger (monitoring/models.py), the notification dispatcher   *)
(* (monitoring/services/notification_service.py), the websocket consumer   *)
(* (monitoring/consumers.py), the status stream and the manual trigger     *)
(* (monitoring/views.py) and the scheduler (monitoring/tasks/scheduler.py).*)
(*                                                                         *)
(* Time is a discrete wall clock.  One step of CheckServer is one          *)
(* iteration of the loop of run_all_checks: probe, PingResult row,         *)
(* ServerStatus read-modify-write, broadcast, notification dispatch.  The  *)
(* Job actions cut the same loop at its statements, for callers that run   *)
(* side by side and for the order of the statements of one call.           *)
(***************************************************************************)
EXTENDS Integers, Sequences, FiniteSets, TLC

\* ---------------------------------------------------------------- bounds
MaxClock == 2
MaxPings == 3
MaxThreshold == 2
MaxCredits == 1
MaxFrames == 2

\* ------------------------------------------------------ program constants
\* ServerStatus.failure_threshold default
DefaultFailureThreshold == 3
\* ServerStatusStreamView: the default of the limit parameter
DefaultPingLimit == 50
\* a null DateTimeField / a null foreign key
None == -1
NoOrg == "no_org"
NoOwner == "no_owner"
NoAccount == "no_account"

VARIABLES
    clock,          \* timezone.now(), the wall clock
    settings,       \* EMAIL_NOTIFICATIONS_ENABLED, SMS_NOTIFICATIONS_ENABLED
    network,        \* what the network can do to a probe (the environment)
    servers,        \* Server rows: id -> [status, protocol, organization, owner]
    server_status,  \* ServerStatus rows: server id -> row (lazily created)
    ping_results,   \* PingResult rows, in insertion order (append only)
    configs,        \* NotificationConfig rows: id -> row
    accounts,       \* UserAccount rows: holder (organization or user) -> credits
    running,        \* a run_all_checks call is in flight
    now,            \* the `now` of the cycle in flight
    pending,        \* the servers the loop of the cycle has still to visit
    results,        \* the `results` list of the cycle in flight
    event,          \* what the most recent loop iteration did (observation)
    last_sent,      \* per config, when a send last succeeded (observation)
    streak,         \* per server, the non-success outcomes in a row since its
                    \* consecutive_failures was 0 (observation)
    sockets,        \* StatusConsumer instances: connection -> [state, user,
                    \* _groups, inbox (the frames sent to the client)]
    groups,         \* the channel layer: server id -> channels in server_<id>
    response,       \* the body of the most recent status stream response
    jobs,           \* run_all_checks calls of concurrent callers: caller ->
                    \* [pc, now, pending, data, row, old_status, todo, held,
                    \* credits, results, mark]
    delivered,      \* per holder, the credited sends that succeeded (observation)
    granted,        \* per holder, the credits ever granted (observation)
    outbox,         \* the channel layer: the messages group_send was given
    report,         \* per caller, what its last run_all_checks call reported
    client          \* a poll-and-resume client of the stream: its cursor and
                    \* the ping events it has received

\* The observers' side: websocket consumers, channel layer, stream response.
observer_vars == <<sockets, groups, response>>

\* The concurrent callers and the ledger observation.
job_vars == <<jobs, delivered, granted>>

\* What leaves the program: broadcasts, reports of the callers, and what a
\* polling client has taken from the stream.
out_vars == <<outbox, report, client>>

vars == <<clock, settings, network, servers, server_status, ping_results, configs,
          accounts, running, now, pending, results, event, last_sent, streak,
          observer_vars, job_vars, out_vars>>

\* ------------------------------------------------------------ vocabulary
ServerIds == {1, 2}
ConfigIds == {1, 2, 3}
STATUS_CHOICES == {"up", "down", "degraded", "unknown"}
PING_STATUS_CHOICES == {"success", "failure", "timeout", "error"}
PROTOCOL_CHOICES == {"http", "https", "icmp", "tcp"}
NOTIFICATION_TYPE_CHOICES == {"email", "webhook", "sms"}

\* What the network does to one probe: an HTTP response with a status code, a
\* TCP connection that establishes, a timeout, or another transport error whose
\* text is str(exc).
NetEvents ==
    {[kind |-> "response", code |-> 200, text |-> ""],
     [kind |-> "response", code |-> 500, text |-> ""],
     [kind |-> "connected", code |-> None, text |-> ""],
     [kind |-> "timeout", code |-> None, text |-> ""],
     [kind |-> "exception", code |-> None, text |-> "connection refused"]}

\* Status codes on both sides of the line _check_http draws at 500.
HttpCodes == {200, 499, 500, 503}

\* The HTTP responses with these codes.
Responses == {[kind |-> "response", code |-> c, text |-> ""] : c \in HttpCodes}

\* The events a probe of the given protocol can meet.
NetFor(protocol) ==
    IF protocol \in {"http", "https"}
    THEN {e \in NetEvents \cup Responses : e.kind # "connected"}
    ELSE IF protocol \in {"tcp", "icmp"}
    THEN {e \in NetEvents : e.kind # "response"}
    ELSE {e \in NetEvents : e.kind = "timeout"}

\* ----------------------------------------------------------------- probe
\* Mutant of the HTTP probe: a client error counts as a failure.
_check_http_client_errors_fail(net) ==
    IF net.kind = "response"
    THEN [status |-> IF net.code < 400 THEN "success" ELSE "failure",
          status_code |-> net.code,
          response_time |-> TRUE,
          error_message |-> ""]
    ELSE IF net.kind = "timeout"
    THEN [status |-> "timeout", status_code |-> None,
          response_time |-> FALSE, error_message |-> "timeout"]
    ELSE [status |-> "error", status_code |-> None,
          response_time |-> FALSE, error_message |-> net.text]

_check_http(net) ==
    IF net.kind = "response"
    THEN [status |-> IF net.code < 500 THEN "success" ELSE "failure",
          status_code |-> net.code,
          response_time |-> TRUE,
          error_message |-> ""]
    ELSE IF net.kind = "timeout"
    THEN [status |-> "timeout", status_code |-> None,
          response_time |-> FALSE, error_message |-> "timeout"]
    ELSE [status |-> "error", status_code |-> None,
          response_time |-> FALSE, error_message |-> net.text]

_check_tcp(net) ==
    IF net.kind = "connected"
    THEN [status |-> "success", status_code |-> None,
          response_time |-> TRUE, error_message |-> ""]
    ELSE IF net.kind = "timeout"
    THEN [status |-> "timeout", status_code |-> None,
          response_time |-> FALSE, error_message |-> "timeout"]
    ELSE [status |-> "failure", status_code |-> None,
          response_time |-> FALSE, error_message |-> net.text]

run_check(server, net) ==
    IF server.protocol \in {"http", "https"} THEN _check_http(net)
    ELSE IF server.protocol = "tcp" THEN _check_tcp(net)
    ELSE IF server.protocol = "icmp" THEN _check_tcp(net)
    ELSE [status |-> "error", status_code |-> None,
          response_time |-> FALSE, error_message |-> "unsupported protocol"]

\* ------------------------------------------------------------ status row
\* The row ServerStatus.objects.get_or_create(server=server) creates.
DefaultStatus ==
    [status |-> "unknown",
     last_check |-> None, last_up |-> None, last_down |-> None,
     consecutive_failures |-> 0,
     failure_threshold |-> DefaultFailureThreshold,
     uptime_percentage |-> 100,
     message |-> "",
     updated_at |-> None]

get_or_create(rows, s) == IF s \in DOMAIN rows THEN rows[s] ELSE DefaultStatus

\* Mutants of the threshold test: a strict comparison, and one failure early.
IsDown_strict(failures, threshold) == failures > threshold

IsDown_early(failures, threshold) == failures + 1 >= threshold

\* Mutant of the threshold test: down only at the threshold itself.
IsDown_exact(failures, threshold) == failures = threshold

\* The threshold test of run_all_checks.
IsDown(failures, threshold) == failures >= threshold

\* Mutant of the failure update: the counter saturates at the threshold.
OnFailure_saturating(status_obj, data, t) ==
    LET n == IF status_obj.consecutive_failures >= status_obj.failure_threshold
             THEN status_obj.consecutive_failures
             ELSE status_obj.consecutive_failures + 1
    IN [status_obj EXCEPT
           !.consecutive_failures = n,
           !.last_down = t,
           !.message = IF data.error_message # "" THEN data.error_message
                       ELSE data.status,
           !.status = IF n >= status_obj.failure_threshold THEN "down"
                      ELSE "degraded"]

\* Mutant of the failure update: the message is always the outcome status.
OnFailure_status_message(status_obj, data, t) ==
    LET n == status_obj.consecutive_failures + 1 IN
    [status_obj EXCEPT
        !.consecutive_failures = n,
        !.last_down = t,
        !.message = data.status,
        !.status = IF n >= status_obj.failure_threshold THEN "down"
                   ELSE "degraded"]

\* Mutant of the failure update: the counter starts again at the threshold.
OnFailure_restart(status_obj, data, t) ==
    LET n == IF status_obj.consecutive_failures >= status_obj.failure_threshold
             THEN 1
             ELSE status_obj.consecutive_failures + 1
    IN [status_obj EXCEPT
           !.consecutive_failures = n,
           !.last_down = t,
           !.message = IF data.error_message # "" THEN data.error_message
                       ELSE data.status,
           !.status = IF n >= status_obj.failure_threshold THEN "down"
                      ELSE "degraded"]

\* The status update of run_all_checks on a non-success outcome.
OnFailure(status_obj, data, t) ==
    LET n == status_obj.consecutive_failures + 1 IN
    [status_obj EXCEPT
        !.consecutive_failures = n,
        !.last_down = t,
        !.message = IF data.error_message # "" THEN data.error_message
                    ELSE data.status,
        !.status = IF IsDown(n, status_obj.failure_threshold) THEN "down"
                   ELSE "degraded"]

\* Mutant of the success update: the failure counter is not reset.
OnSuccess_no_reset(status_obj, t) ==
    [status_obj EXCEPT !.status = "up", !.last_up = t, !.message = "OK"]

\* Mutant of the success update: the time of the last failure is cleared.
OnSuccess_clears_last_down(status_obj, t) ==
    [status_obj EXCEPT
        !.consecutive_failures = 0,
        !.status = "up",
        !.last_up = t,
        !.last_down = None,
        !.message = "OK"]

\* The status update of run_all_checks on a success outcome.
OnSuccess(status_obj, t) ==
    [status_obj EXCEPT
        !.consecutive_failures = 0,
        !.status = "up",
        !.last_up = t,
        !.message = "OK"]

\* Mutant of the status update: a probe that does not succeed is dropped.
UpdateStatus_success_only(status_obj, data, t, wall) ==
    IF data.status = "success"
    THEN [OnSuccess([status_obj EXCEPT !.last_check = t], t) EXCEPT
             !.updated_at = wall]
    ELSE status_obj

\* run_all_checks, from `status_obj.last_check = now` to `status_obj.save()`:
\* t is the cycle's `now`, wall the clock that auto_now stamps at save().
UpdateStatus(status_obj, data, t, wall) ==
    LET checked == [status_obj EXCEPT !.last_check = t]
        reduced == IF data.status = "success" THEN OnSuccess(checked, t)
                   ELSE OnFailure(checked, data, t)
    IN [reduced EXCEPT !.updated_at = wall]

\* ---------------------------------------------------------- notification
\* NotificationConfig rows the API can create: the three fields that are unique
\* together (server, notification_type, recipient) with the flags and the
\* interval of each recipient.  Intervals are in clock ticks.
ConfigTemplate(c) ==
    IF c = 1
    THEN [server |-> 1, notification_type |-> "email", enabled |-> TRUE,
          notify_on_failure |-> TRUE, notify_on_recovery |-> TRUE,
          min_notification_interval |-> 1, updated_at |-> None]
    ELSE IF c = 2
    THEN [server |-> 1, notification_type |-> "webhook", enabled |-> TRUE,
          notify_on_failure |-> TRUE, notify_on_recovery |-> FALSE,
          min_notification_interval |-> 2, updated_at |-> None]
    ELSE [server |-> 2, notification_type |-> "sms", enabled |-> TRUE,
          notify_on_failure |-> TRUE, notify_on_recovery |-> TRUE,
          min_notification_interval |-> 2, updated_at |-> None]

\* NotificationConfig.Meta.ordering = ["server", "notification_type"]
TypeRank(type) == IF type = "email" THEN 0 ELSE IF type = "sms" THEN 1 ELSE 2

ConfigBefore(rows, a, b) ==
    \/ rows[a].server < rows[b].server
    \/ /\ rows[a].server = rows[b].server
       /\ \/ TypeRank(rows[a].notification_type) <
             TypeRank(rows[b].notification_type)
          \/ /\ rows[a].notification_type = rows[b].notification_type
             /\ a < b

RECURSIVE Ordered(_, _)
Ordered(rows, ids) ==
    IF ids = {} THEN <<>>
    ELSE LET first == CHOOSE a \in ids :
                          \A b \in ids \ {a} : ConfigBefore(rows, a, b)
         IN <<first>> \o Ordered(rows, ids \ {first})

\* NotificationService._can_send_notification at wall-clock time t.
_can_send_notification(config, t) ==
    IF config.updated_at = None THEN TRUE
    ELSE t - config.updated_at >= config.min_notification_interval

\* Mutant of the account resolution: the owner's account comes first.
_get_account_owner_first(accts, server) ==
    IF server.owner # NoOwner /\ server.owner \in DOMAIN accts
    THEN server.owner
    ELSE IF server.organization # NoOrg /\ server.organization \in DOMAIN accts
    THEN server.organization
    ELSE NoAccount

\* NotificationService._get_account: the holder whose UserAccount is billed.
_get_account(accts, server) ==
    IF server.organization # NoOrg /\ server.organization \in DOMAIN accts
    THEN server.organization
    ELSE IF server.owner = NoOwner THEN NoAccount
    ELSE IF server.owner \in DOMAIN accts THEN server.owner
    ELSE NoAccount

consume_email(account) ==
    IF account.email_credits <= 0 THEN account
    ELSE [account EXCEPT !.email_credits = @ - 1]

\* Mutant of the SMS decrement: the email counter pays for the SMS.
consume_sms_from_email(account) ==
    IF account.sms_credits <= 0 THEN account
    ELSE [account EXCEPT !.email_credits = @ - 1]

consume_sms(account) ==
    IF account.sms_credits <= 0 THEN account
    ELSE [account EXCEPT !.sms_credits = @ - 1]

\* config.updated_at = timezone.now(); config.save(update_fields=["updated_at"])
Stamp(db, c, t) == [db EXCEPT !.configs[c].updated_at = t]

\* Mutant of the email adapter: the credit balance is not looked at before the
\* transport is called.
_send_email_unchecked(db, st, server, c, ok, t) ==
    IF ~st.email_enabled THEN [db |-> db, result |-> "channel_disabled"]
    ELSE IF ~ok THEN [db |-> db, result |-> "failed"]
    ELSE LET account == _get_account(db.accounts, server)
             paid == IF account = NoAccount THEN db
                     ELSE [db EXCEPT !.accounts[account] = consume_email(@)]
         IN [db |-> Stamp(paid, c, t), result |-> "sent"]

\* The three channel adapters.  db holds the config and account rows, ok says
\* whether the transport (send_mail, Twilio, requests.post) accepts the message.
_send_email(db, st, server, c, ok, t) ==
    IF ~st.email_enabled THEN [db |-> db, result |-> "channel_disabled"]
    ELSE LET account == _get_account(db.accounts, server) IN
         IF account # NoAccount /\ db.accounts[account].email_credits <= 0
         THEN [db |-> db, result |-> "no_credits"]
         ELSE IF ~ok THEN [db |-> db, result |-> "failed"]
         ELSE LET paid == IF account = NoAccount THEN db
                          ELSE [db EXCEPT !.accounts[account] = consume_email(@)]
              IN [db |-> Stamp(paid, c, t), result |-> "sent"]

_send_sms(db, st, server, c, ok, t) ==
    IF ~st.sms_enabled THEN [db |-> db, result |-> "channel_disabled"]
    ELSE LET account == _get_account(db.accounts, server) IN
         IF account # NoAccount /\ db.accounts[account].sms_credits <= 0
         THEN [db |-> db, result |-> "no_credits"]
         ELSE IF ~ok THEN [db |-> db, result |-> "failed"]
         ELSE LET paid == IF account = NoAccount THEN db
                          ELSE [db EXCEPT !.accounts[account] = consume_sms(@)]
              IN [db |-> Stamp(paid, c, t), result |-> "sent"]

\* Mutant of the webhook adapter: the cursor is stamped before the transport
\* is called.
_send_webhook_stamp_first(db, c, ok, t) ==
    IF ~ok THEN [db |-> Stamp(db, c, t), result |-> "failed"]
    ELSE [db |-> Stamp(db, c, t), result |-> "sent"]

_send_webhook(db, c, ok, t) ==
    IF ~ok THEN [db |-> db, result |-> "failed"]
    ELSE [db |-> Stamp(db, c, t), result |-> "sent"]

\* One iteration of the `for config in configs` loop of notify_status_change.
SendOne(db, st, server, c, ok, t) ==
    LET config == db.configs[c] IN
    IF ~_can_send_notification(config, t)
    THEN [db |-> db, result |-> "rate_limited"]
    ELSE IF config.notification_type = "email"
    THEN _send_email(db, st, server, c, ok, t)
    ELSE IF config.notification_type = "sms"
    THEN _send_sms(db, st, server, c, ok, t)
    ELSE _send_webhook(db, c, ok, t)

\* Mutant of the loop: a failing transport aborts the remaining configs.
RECURSIVE SendAll_abort_on_failure(_, _, _, _, _, _, _)
SendAll_abort_on_failure(db, st, server, selected, is_recovery, transport, t) ==
    IF selected = <<>> THEN [db |-> db, attempts |-> <<>>]
    ELSE LET c == Head(selected)
             one == SendOne(db, st, server, c, transport[c], t)
             rest == IF one.result = "failed"
                     THEN [db |-> one.db, attempts |-> <<>>]
                     ELSE SendAll_abort_on_failure(one.db, st, server,
                              Tail(selected), is_recovery, transport, t)
         IN [db |-> rest.db,
             attempts |->
                 <<[config |-> c,
                    kind |-> IF is_recovery THEN "recovery" ELSE "failure",
                    result |-> one.result,
                    before |-> db.accounts,
                    after |-> one.db.accounts,
                    cursor_before |-> db.configs[c].updated_at,
                    cursor |-> one.db.configs[c].updated_at]>> \o rest.attempts]

RECURSIVE SendAll(_, _, _, _, _, _, _)
SendAll(db, st, server, selected, is_recovery, transport, t) ==
    IF selected = <<>> THEN [db |-> db, attempts |-> <<>>]
    ELSE LET c == Head(selected)
             one == SendOne(db, st, server, c, transport[c], t)
             rest == SendAll(one.db, st, server, Tail(selected), is_recovery,
                             transport, t)
         IN [db |-> rest.db,
             attempts |->
                 <<[config |-> c,
                    kind |-> IF is_recovery THEN "recovery" ELSE "failure",
                    result |-> one.result,
                    before |-> db.accounts,
                    after |-> one.db.accounts,
                    cursor_before |-> db.configs[c].updated_at,
                    cursor |-> one.db.configs[c].updated_at]>> \o rest.attempts]

\* Mutant of the failure classification: only a first failure alerts.
is_failure_first_only(new_status) == new_status = "degraded"

is_failure(new_status) == new_status \in {"down", "degraded"}

\* Mutant of the recovery classification: the new status is not looked at.
is_recovery_any_target(previous_status, new_status) ==
    previous_status \in {"down", "degraded"}

is_recovery(previous_status, new_status) ==
    previous_status \in {"down", "degraded"} /\ new_status = "up"

\* Mutant of the selection: notify_on_recovery is not looked at.
Selected_any_event(rows, s, failure) ==
    {c \in DOMAIN rows :
        rows[c].server = s /\ rows[c].enabled /\ rows[c].notify_on_failure}

\* Mutant of the selection: the enabled flag is not looked at.
Selected_ignore_enabled(rows, s, failure) ==
    {c \in DOMAIN rows :
        /\ rows[c].server = s
        /\ IF failure THEN rows[c].notify_on_failure
           ELSE rows[c].notify_on_recovery}

\* The configs notify_status_change selects for server s.
Selected(rows, s, failure) ==
    {c \in DOMAIN rows :
        /\ rows[c].server = s
        /\ rows[c].enabled
        /\ IF failure THEN rows[c].notify_on_failure
           ELSE rows[c].notify_on_recovery}

\* NotificationService.notify_status_change(server, status, previous_status).
notify_status_change(db, st, s, server, new_status, previous_status, transport, t) ==
    IF previous_status = new_status THEN [db |-> db, attempts |-> <<>>]
    ELSE IF ~is_failure(new_status) /\ ~is_recovery(previous_status, new_status)
    THEN [db |-> db, attempts |-> <<>>]
    ELSE SendAll(db, st, server,
                 Ordered(db.configs, Selected(db.configs, s, is_failure(new_status))),
                 is_recovery(previous_status, new_status), transport, t)

\* Mutant of the comparison: a first check is not compared with unknown.
Notable_known_only(old_status, new_status) ==
    old_status # new_status /\ old_status # "unknown"

\* A JSON frame sent to a websocket client: {type: "latest", statuses, pings},
\* {type: "subscribed", servers}, {type: "update", ping, status} or
\* {error: "unknown action"} (type "error").
Frame(type, ids, pings, statuses) ==
    [type |-> type, servers |-> ids, pings |-> pings, statuses |-> statuses]

\* Mutant of the group name: every server shares the group of server 1.
_group_name_shared(server_id) == 1

\* StatusConsumer._group_name: the group server_<id>, named by the id.
_group_name(server_id) == server_id

\* _group_send(group, payload) with a configured channel layer: the layer is
\* handed one message {type: "ping_update", ping, status} for the group.
_group_send(box, ping, status) ==
    Append(box, [group |-> _group_name(ping.server),
                 ping |-> ping, status |-> status.status])

\* The consumers' side of notify_subscribers(ping, status): group_send to
\* server_<id>, and ping_update of every connected member sends the frame.
notify_subscribers(socks, grp, ping, status) ==
    [c \in DOMAIN socks |->
        IF c \in grp[_group_name(ping.server)] /\ socks[c].state = "open"
        THEN [socks[c] EXCEPT !.inbox =
                 Append(@, Frame("update", {ping.server}, <<ping>>,
                                 <<[server |-> ping.server,
                                    status |-> status.status]>>))]
        ELSE socks[c]]

\* The holder whose credits a successful attempt consumed, NoAccount if none.
Billed(attempt, server, rows) ==
    IF attempt.result = "sent" /\ rows[attempt.config].notification_type # "webhook"
    THEN _get_account(attempt.before, server) ELSE NoAccount

\* `old_status != status_obj.status` in run_all_checks.
Notable(old_status, new_status) == old_status # new_status

\* ------------------------------------------------------------------ state
Server1 ==
    [status |-> "active", protocol |-> "https",
     organization |-> "org1", owner |-> "user1"]

Server2 ==
    [status |-> "active", protocol |-> "tcp",
     organization |-> "org1", owner |-> "user1"]

\* A server of another organization, owned by a user of that organization.
OtherTenantServer ==
    [status |-> "active", protocol |-> "tcp",
     organization |-> "org2", owner |-> "user2"]

\* ServerStatus rows that exist before the first check of a server (created as
\* the tests create them, ServerStatus.objects.create(...)): unchecked rows that
\* satisfy the status invariant, with any threshold up to MaxThreshold.
SeedRows ==
    {[DefaultStatus EXCEPT !.status = st, !.consecutive_failures = n,
                           !.failure_threshold = th, !.updated_at = 0] :
        <<st, n, th>> \in
            {x \in STATUS_CHOICES \X (0..MaxThreshold) \X (1..MaxThreshold) :
                \/ x[1] \in {"unknown", "up"} /\ x[2] = 0
                \/ x[1] = "down" /\ x[2] = x[3]
                \/ x[1] = "degraded" /\ 0 < x[2] /\ x[2] < x[3]}}

\* The callers of run_all_checks that run in threads or processes of their
\* own: the scheduler's job thread, a web worker serving RunChecksView and
\* the check_servers command.
Callers == {"scheduler", "web", "command"}

\* The local `data` before a probe has returned.
NoData ==
    [status |-> "", status_code |-> None, response_time |-> FALSE,
     error_message |-> ""]

\* A caller with no run_all_checks call in flight.
IdleJob ==
    [pc |-> "idle", now |-> None, pending |-> <<>>, data |-> NoData,
     row |-> DefaultStatus, old_status |-> "", todo |-> <<>>,
     held |-> NoAccount, credits |-> 0, results |-> <<>>, mark |-> 0]

\* A caller that has reported nothing yet.
NoReport == [served |-> FALSE, count |-> 0, results |-> <<>>]

\* A stream client that has not polled yet: no cursor, nothing received.
NoClient == [since |-> None, received |-> {}]

\* No status stream has been requested yet.
NoResponse ==
    [served |-> FALSE, user |-> "", status |-> "", server_id |-> {},
     since |-> None, limit |-> 0, body |-> <<>>]

NoEvent ==
    [server |-> 0, outcome |-> "", status_before |-> "", status_after |-> "",
     created |-> FALSE, failures_before |-> 0, dispatched |-> FALSE,
     attempts |-> <<>>, sent_before |-> <<>>, now |-> None, at |-> None]

TypeOK ==
    /\ clock \in 0..MaxClock
    /\ DOMAIN server_status \subseteq DOMAIN servers
    /\ \A s \in DOMAIN server_status :
          /\ server_status[s].status \in STATUS_CHOICES
          /\ server_status[s].consecutive_failures \in Nat
    /\ Len(ping_results) <= MaxPings
    /\ \A i \in 1..Len(ping_results) :
          ping_results[i].status \in PING_STATUS_CHOICES
    /\ DOMAIN configs \subseteq ConfigIds
    /\ \A a \in DOMAIN accounts :
          accounts[a].email_credits \in Int /\ accounts[a].sms_credits \in Int

\* The state common to every specification: an empty PingResult table, no
\* cycle in flight.
InitCommon ==
    /\ clock = 0
    /\ ping_results = <<>>
    /\ running = FALSE
    /\ now = None
    /\ pending = <<>>
    /\ results = <<>>
    /\ event = NoEvent
    /\ last_sent = [c \in ConfigIds |-> None]
    /\ streak = [s \in ServerIds |->
                    IF s \in DOMAIN server_status
                       /\ server_status[s].consecutive_failures # 0
                    THEN None ELSE 0]
    /\ sockets = [c \in {} |-> 0]
    /\ groups = [s \in ServerIds |-> {}]
    /\ response = NoResponse
    /\ jobs = [p \in Callers |-> IdleJob]
    /\ delivered = [a \in DOMAIN accounts |-> 0]
    /\ granted = [a \in DOMAIN accounts |->
                     accounts[a].email_credits + accounts[a].sms_credits]
    /\ outbox = <<>>
    /\ report = [p \in Callers |-> NoReport]
    /\ client = NoClient

\* ---------------------------------------------------------------- actions
\* The wall clock advances.
Tick ==
    /\ clock < MaxClock
    /\ clock' = clock + 1
    /\ UNCHANGED <<settings, network, servers, server_status, ping_results, configs,
                   accounts, running, now, pending, results, event, last_sent, streak,
                   observer_vars, job_vars,
                   out_vars>>

\* Server.Meta.ordering = ["name"]: server ids stand for the names.
RECURSIVE ByName(_)
ByName(ids) ==
    IF ids = {} THEN <<>>
    ELSE LET first == CHOOSE a \in ids : \A b \in ids : a <= b
         IN <<first>> \o ByName(ids \ {first})

\* Mutant of the start: the loop misses the first server of the queryset.
StartCycle_skip_first(queryset) ==
    /\ ~running
    /\ running' = TRUE
    /\ now' = clock
    /\ pending' = IF queryset = <<>> THEN <<>> ELSE Tail(queryset)
    /\ results' = <<>>
    /\ UNCHANGED <<clock, settings, network, servers, server_status, ping_results,
                   configs, accounts, event, last_sent, streak,
                   observer_vars, job_vars,
                   out_vars>>

\* A call of run_all_checks starts.  In the specifications built from
\* NextCycle the calls come one after another: a caller starts one only when
\* none is in flight.  SpecOverlap lifts that restriction.
StartCycle(queryset) ==
    /\ ~running
    /\ running' = TRUE
    /\ now' = clock
    /\ pending' = queryset
    /\ results' = <<>>
    /\ UNCHANGED <<clock, settings, network, servers, server_status, ping_results,
                   configs, accounts, event, last_sent, streak,
                   observer_vars, job_vars,
                   out_vars>>

\* The scheduler's job and the check_servers command: run_all_checks() over
\* Server.objects.filter(status="active").
ScheduledRun ==
    StartCycle(ByName({s \in DOMAIN servers : servers[s].status = "active"}))

\* RunChecksView.post by an admin of organization org: run_all_checks over
\* Server.objects.filter(organization_id__in=org_ids).
ManualRun ==
    \E org \in {servers[s].organization : s \in DOMAIN servers} \ {NoOrg} :
        StartCycle(ByName({s \in DOMAIN servers : servers[s].organization = org}))

\* One iteration of `for server in servers` in run_all_checks.  Every caller
\* leaves send_notifications at its default, so notification_service is set.
CheckServer ==
    /\ running
    /\ pending # <<>>
    /\ Len(ping_results) < MaxPings
    /\ LET s == Head(pending)
           server == servers[s]
       IN \E net \in NetFor(server.protocol) \cap network,
             transport \in [{c \in DOMAIN configs : configs[c].server = s}
                               -> BOOLEAN] :
            LET data == run_check(server, net)
                ping == [server |-> s,
                         status |-> data.status,
                         status_code |-> data.status_code,
                         response_time |-> data.response_time,
                         error_message |-> data.error_message,
                         check_timestamp |-> now]
                status_obj == get_or_create(server_status, s)
                old_status == status_obj.status
                saved == UpdateStatus(status_obj, data, now, clock)
                db == [configs |-> configs, accounts |-> accounts]
                dispatched == Notable(old_status, saved.status)
                sent == IF dispatched
                        THEN notify_status_change(db, settings, s, server,
                                 saved.status, old_status, transport, clock)
                        ELSE [db |-> db, attempts |-> <<>>]
            IN /\ ping_results' = Append(ping_results, ping)
               /\ server_status' =
                     [x \in DOMAIN server_status \cup {s} |->
                         IF x = s THEN saved ELSE server_status[x]]
               /\ configs' = sent.db.configs
               /\ accounts' = sent.db.accounts
               /\ event' = [server |-> s,
                            outcome |-> data.status,
                            status_before |-> old_status,
                            status_after |-> saved.status,
                            created |-> s \notin DOMAIN server_status,
                            failures_before |-> status_obj.consecutive_failures,
                            dispatched |-> dispatched,
                            attempts |-> sent.attempts,
                            sent_before |-> last_sent,
                            now |-> now,
                            at |-> clock]
               /\ last_sent' =
                     [c \in ConfigIds |->
                         IF \E i \in 1..Len(sent.attempts) :
                                /\ sent.attempts[i].config = c
                                /\ sent.attempts[i].result = "sent"
                         THEN clock ELSE last_sent[c]]
               /\ sockets' = notify_subscribers(sockets, groups, ping, saved)
               /\ outbox' = _group_send(outbox, ping, saved)
               /\ delivered' =
                     [a \in DOMAIN delivered |->
                         delivered[a] +
                         Cardinality({i \in 1..Len(sent.attempts) :
                             Billed(sent.attempts[i], server, configs) = a})]
               /\ streak' = [streak EXCEPT ![s] =
                                IF data.status = "success" THEN 0
                                ELSE IF @ = None THEN None ELSE @ + 1]
               /\ results' = Append(results, <<s, data.status>>)
               /\ pending' = Tail(pending)
    /\ UNCHANGED <<clock, settings, network, servers, running, now,
                   groups, response, jobs, granted, report, client>>

\* run_all_checks returns its results.
FinishCycle ==
    /\ running
    /\ pending = <<>>
    /\ running' = FALSE
    /\ UNCHANGED <<clock, settings, network, servers, server_status, ping_results,
                   configs, accounts, now, pending, results, event, last_sent, streak,
                   observer_vars, job_vars,
                   out_vars>>

\* NotificationConfigViewSet.create: auto_now stamps updated_at with the time
\* of creation.
CreateConfig(c) ==
        /\ c \notin DOMAIN configs
        /\ ConfigTemplate(c).server \in DOMAIN servers
        /\ configs' = [x \in DOMAIN configs \cup {c} |->
                          IF x = c
                          THEN [ConfigTemplate(c) EXCEPT !.updated_at = clock]
                          ELSE configs[x]]
        /\ UNCHANGED <<clock, settings, network, servers, server_status, ping_results,
                       accounts, running, now, pending, results, event,
                       last_sent, streak,
                   observer_vars, job_vars,
                   out_vars>>

\* Mutant of the edit: the save leaves updated_at as it was.
EditConfig_no_stamp(c) ==
        /\ c \in DOMAIN configs
        /\ configs' = [configs EXCEPT ![c].enabled = ~@]
        /\ UNCHANGED <<clock, settings, network, servers, server_status, ping_results,
                       accounts, running, now, pending, results, event,
                       last_sent, streak,
                   observer_vars, job_vars,
                   out_vars>>

\* NotificationConfigViewSet.update / partial_update: an edit of the record
\* (here of its enabled flag); auto_now stamps updated_at at every save.
EditConfig(c) ==
        /\ c \in DOMAIN configs
        /\ configs' = [configs EXCEPT ![c].enabled = ~@,
                                      ![c].updated_at = clock]
        /\ UNCHANGED <<clock, settings, network, servers, server_status, ping_results,
                       accounts, running, now, pending, results, event,
                       last_sent, streak,
                   observer_vars, job_vars,
                   out_vars>>

\* ---------------------------------------------------- concurrent callers
\* The same run_all_checks, called by threads and processes that run side by
\* side: the scheduler's job thread, a web worker serving RunChecksView and
\* the check_servers command.  A call is cut at its statements that touch the
\* network, the database or the channel layer; jobs[p].pc names the statement
\* caller p executes next.  jobs[p].data, row and old_status are the locals
\* data, status_obj and old_status, jobs[p].held and credits the UserAccount
\* instance an adapter has loaded and the counter it holds in memory.  The
\* observations event, results, last_sent and streak belong to the
\* one-call-at-a-time actions above and are left alone here.

\* Mutant of the statement order: the broadcast comes before the save.
Following_broadcast_first(pc) ==
    IF pc = "probe" THEN "create"
    ELSE IF pc = "create" THEN "get"
    ELSE IF pc = "get" THEN "broadcast"
    ELSE IF pc = "broadcast" THEN "save"
    ELSE IF pc = "save" THEN "notify"
    ELSE "probe"

\* The statement of the loop body of run_all_checks that follows statement
\* pc: run_check, PingResult.objects.create, get_or_create, save,
\* notify_subscribers, notify_status_change, and the next iteration.
Following(pc) ==
    IF pc = "probe" THEN "create"
    ELSE IF pc = "create" THEN "get"
    ELSE IF pc = "get" THEN "save"
    ELSE IF pc = "save" THEN "broadcast"
    ELSE IF pc = "broadcast" THEN "notify"
    ELSE "probe"

\* The row PingResult.objects.create(...) inserts.
PingRow(s, data, t) ==
    [server |-> s,
     status |-> data.status,
     status_code |-> data.status_code,
     response_time |-> data.response_time,
     error_message |-> data.error_message,
     check_timestamp |-> t]

\* Mutant of results.append: the entry carries the error text when there is one.
Appended_with_message(rows, server_id, data) ==
    Append(rows, <<server_id, IF data.error_message # "" THEN data.error_message
                              ELSE data.status>>)

\* results.append((server.id, data["status"]))
Appended(rows, server_id, data) == Append(rows, <<server_id, data.status>>)

\* What a caller reports of the returned list: RunChecksView.post answers
\* {"count": len(results), "results": results}; the command writes
\* "Ran <len(results)> checks" and a line "Server <id>: <status>" per entry.
Response(rows) == [served |-> TRUE, count |-> Len(rows), results |-> rows]

\* A call of run_all_checks by caller p over the given servers starts;
\* mark is the number of PingResult rows at that moment (observation).
StartJob(p, queryset) ==
    jobs' = [jobs EXCEPT ![p] =
                [IdleJob EXCEPT !.pc = "probe", !.now = clock,
                                !.pending = queryset,
                                !.mark = Len(ping_results)]]

\* The scheduler's timer fires: max_instances=1 skips the run while the
\* previous run of the job has not returned.
SchedulerFires ==
    /\ jobs["scheduler"].pc = "idle"
    /\ StartJob("scheduler",
                ByName({s \in DOMAIN servers : servers[s].status = "active"}))
    /\ UNCHANGED <<clock, settings, network, servers, server_status, ping_results,
                   configs, accounts, running, now, pending, results, event,
                   last_sent, streak, observer_vars, delivered, granted,
                   out_vars>>

\* RunChecksView.post in a web worker, by a staff user without organizations
\* (the answer is a count of 0 and no call) or by an admin of an
\* organization: the view calls run_all_checks whatever the scheduler is
\* doing.
RunChecksPost ==
    /\ jobs["web"].pc = "idle"
    /\ \E org_ids \in {{}} \cup
                     {{servers[s].organization} : s \in DOMAIN servers} :
          IF org_ids \subseteq {NoOrg}
          THEN /\ report' = [report EXCEPT !["web"] = Response(<<>>)]
               /\ UNCHANGED jobs
          ELSE /\ StartJob("web",
                           ByName({s \in DOMAIN servers :
                                      servers[s].organization \in org_ids}))
               /\ UNCHANGED report
    /\ UNCHANGED <<clock, settings, network, servers, server_status, ping_results,
                   configs, accounts, running, now, pending, results, event,
                   last_sent, streak, observer_vars, delivered, granted,
                   outbox, client>>

\* Command.handle of check_servers, in a process of its own: run_all_checks()
\* over the active servers.
CommandHandle ==
    /\ jobs["command"].pc = "idle"
    /\ StartJob("command",
                ByName({s \in DOMAIN servers : servers[s].status = "active"}))
    /\ UNCHANGED <<clock, settings, network, servers, server_status, ping_results,
                   configs, accounts, running, now, pending, results, event,
                   last_sent, streak, observer_vars, delivered, granted,
                   out_vars>>

\* data = service.run_check(server) returns for the next server of caller p.
JobProbe(p) ==
    /\ jobs[p].pc = "probe"
    /\ jobs[p].pending # <<>>
    /\ Len(ping_results) + Cardinality({q \in Callers : jobs[q].pc = "create"})
          < MaxPings
    /\ LET server == servers[Head(jobs[p].pending)]
       IN \E net \in NetFor(server.protocol) \cap network :
             jobs' = [jobs EXCEPT ![p].data = run_check(server, net),
                                  ![p].pc = Following("probe")]
    /\ UNCHANGED <<clock, settings, network, servers, server_status, ping_results,
                   configs, accounts, running, now, pending, results, event,
                   last_sent, streak, observer_vars, delivered, granted,
                   out_vars>>

\* ping = PingResult.objects.create(...)
JobCreate(p) ==
    /\ jobs[p].pc = "create"
    /\ ping_results' = Append(ping_results,
                              PingRow(Head(jobs[p].pending), jobs[p].data,
                                      jobs[p].now))
    /\ jobs' = [jobs EXCEPT ![p].pc = Following("create")]
    /\ UNCHANGED <<clock, settings, network, servers, server_status,
                   configs, accounts, running, now, pending, results, event,
                   last_sent, streak, observer_vars, delivered, granted,
                   out_vars>>

\* status_obj, created = ServerStatus.objects.get_or_create(server=server);
\* old_status = status_obj.status.  A missing row is inserted with its
\* defaults.
JobGet(p) ==
    /\ jobs[p].pc = "get"
    /\ LET s == Head(jobs[p].pending)
           status_obj == IF s \in DOMAIN server_status THEN server_status[s]
                         ELSE [DefaultStatus EXCEPT !.updated_at = clock]
       IN /\ server_status' =
                [x \in DOMAIN server_status \cup {s} |->
                    IF x = s THEN status_obj ELSE server_status[x]]
          /\ jobs' = [jobs EXCEPT ![p].row = status_obj,
                                  ![p].old_status = status_obj.status,
                                  ![p].pc = Following("get")]
    /\ UNCHANGED <<clock, settings, network, servers, ping_results,
                   configs, accounts, running, now, pending, results, event,
                   last_sent, streak, observer_vars, delivered, granted,
                   out_vars>>

\* From `status_obj.last_check = now` to `status_obj.save()`: the instance
\* loaded by get_or_create is updated in memory and every field of it is
\* written back.
JobSave(p) ==
    /\ jobs[p].pc = "save"
    /\ LET s == Head(jobs[p].pending)
           saved == UpdateStatus(jobs[p].row, jobs[p].data, jobs[p].now, clock)
       IN /\ server_status' =
                [x \in DOMAIN server_status \cup {s} |->
                    IF x = s THEN saved ELSE server_status[x]]
          /\ jobs' = [jobs EXCEPT ![p].row = saved,
                                  ![p].pc = Following("save")]
    /\ UNCHANGED <<clock, settings, network, servers, ping_results,
                   configs, accounts, running, now, pending, results, event,
                   last_sent, streak, observer_vars, delivered, granted,
                   out_vars>>

\* notify_subscribers(ping, status_obj), then the test of the status change
\* and the call of notify_status_change up to the selection of its configs.
JobBroadcast(p) ==
    /\ jobs[p].pc = "broadcast"
    /\ LET s == Head(jobs[p].pending)
           ping == PingRow(s, jobs[p].data, jobs[p].now)
           status_obj == jobs[p].row
           old_status == jobs[p].old_status
           selected ==
               IF Notable(old_status, status_obj.status)
                  /\ (is_failure(status_obj.status)
                      \/ is_recovery(old_status, status_obj.status))
               THEN Ordered(configs,
                            Selected(configs, s, is_failure(status_obj.status)))
               ELSE <<>>
       IN /\ sockets' = notify_subscribers(sockets, groups, ping, status_obj)
          /\ outbox' = _group_send(outbox, ping, status_obj)
          /\ jobs' = [jobs EXCEPT ![p].todo = selected,
                                  ![p].pc = Following("broadcast")]
    /\ UNCHANGED <<clock, settings, network, servers, server_status, ping_results,
                   configs, accounts, running, now, pending, results, event,
                   last_sent, streak, groups, response, delivered, granted,
                   report, client>>

\* The counter of an account that pays for a notification of the given type.
Balance(account, type) ==
    IF type = "email" THEN account.email_credits ELSE account.sms_credits

\* The next config of the loop of notify_status_change, up to the transport
\* call of its adapter: cooldown test, channel switch, account lookup and
\* credit test.  With no config left, the loop body of run_all_checks ends
\* with results.append.
JobSelect(p) ==
    /\ jobs[p].pc = "notify"
    /\ IF jobs[p].todo = <<>>
       THEN jobs' = [jobs EXCEPT
                        ![p].pc = Following("notify"),
                        ![p].results = Appended(@, Head(jobs[p].pending),
                                                jobs[p].data),
                        ![p].pending = Tail(@),
                        ![p].data = NoData]
       ELSE LET c == Head(jobs[p].todo)
                type == configs[c].notification_type
                server == servers[Head(jobs[p].pending)]
                account == IF type = "webhook" THEN NoAccount
                           ELSE _get_account(accounts, server)
                skip == \/ ~_can_send_notification(configs[c], clock)
                        \/ type = "email" /\ ~settings.email_enabled
                        \/ type = "sms" /\ ~settings.sms_enabled
                        \/ /\ account # NoAccount
                           /\ Balance(accounts[account], type) <= 0
            IN IF skip
               THEN jobs' = [jobs EXCEPT ![p].todo = Tail(@)]
               ELSE jobs' = [jobs EXCEPT
                                ![p].pc = "transport",
                                ![p].held = account,
                                ![p].credits =
                                    IF account = NoAccount THEN 0
                                    ELSE Balance(accounts[account], type)]
    /\ UNCHANGED <<clock, settings, network, servers, server_status, ping_results,
                   configs, accounts, running, now, pending, results, event,
                   last_sent, streak, observer_vars, delivered, granted,
                   out_vars>>

\* The transport call of the adapter returns.  On success consume_email /
\* consume_sms decrements the counter of the loaded instance and saves that
\* field, and the cursor of the config is stamped.
JobTransport(p) ==
    /\ jobs[p].pc = "transport"
    /\ LET c == Head(jobs[p].todo)
           type == configs[c].notification_type
           a == jobs[p].held
       IN \E ok \in BOOLEAN :
            /\ IF ok /\ a # NoAccount /\ jobs[p].credits > 0
               THEN accounts' =
                       IF type = "email"
                       THEN [accounts EXCEPT ![a].email_credits = jobs[p].credits - 1]
                       ELSE [accounts EXCEPT ![a].sms_credits = jobs[p].credits - 1]
               ELSE UNCHANGED accounts
            /\ IF ok /\ a # NoAccount
               THEN delivered' = [delivered EXCEPT ![a] = @ + 1]
               ELSE UNCHANGED delivered
            /\ IF ok
               THEN configs' = [configs EXCEPT ![c].updated_at = clock]
               ELSE UNCHANGED configs
            /\ jobs' = [jobs EXCEPT ![p].pc = "notify", ![p].todo = Tail(@),
                                    ![p].held = NoAccount, ![p].credits = 0]
    /\ UNCHANGED <<clock, settings, network, servers, server_status, ping_results,
                   running, now, pending, results, event, last_sent, streak,
                   observer_vars, granted,
                   out_vars>>

\* run_all_checks of caller p returns its results; the view and the command
\* report them, the scheduler drops them.
JobReturn(p) ==
    /\ jobs[p].pc = "probe"
    /\ jobs[p].pending = <<>>
    /\ jobs' = [jobs EXCEPT ![p] = IdleJob]
    /\ report' = IF p = "scheduler" THEN report
                 ELSE [report EXCEPT ![p] = Response(jobs[p].results)]
    /\ UNCHANGED <<clock, settings, network, servers, server_status, ping_results,
                   configs, accounts, running, now, pending, results, event,
                   last_sent, streak, observer_vars, delivered, granted,
                   outbox, client>>

\* ------------------------------------------------------------- observers
\* Websocket connections (channel names) and the identities in their scope.
Conns == {1, 2}

AnonymousUser == "anonymous"

\* scope["user"] of each connection, as the authentication middleware sets
\* it: the first connection is a logged-in user's, the second carries no
\* valid identity.
Scope == [c \in Conns |-> IF c = 1 THEN "user1" ELSE AnonymousUser]

\* Mutant of the authentication test: every identity passes.
is_authenticated_anyone(user) == TRUE

is_authenticated(user) == user # AnonymousUser

\* StatusConsumer._get_servers(server_ids, query) for a message without a
\* query: the servers with an id in server_ids, all servers when server_ids
\* is absent or empty, ordered by id.
_get_servers(rows, server_ids) ==
    ByName(IF server_ids = {} THEN DOMAIN rows ELSE server_ids \cap DOMAIN rows)

\* The elements of a sequence.
Range(seq) == {seq[i] : i \in 1..Len(seq)}

\* StatusConsumer._fetch_statuses(servers)
RECURSIVE _fetch_statuses(_, _)
_fetch_statuses(rows, ids) ==
    IF ids = <<>> THEN <<>>
    ELSE (IF Head(ids) \in DOMAIN rows
          THEN <<[server |-> Head(ids), status |-> rows[Head(ids)].status]>>
          ELSE <<>>) \o _fetch_statuses(rows, Tail(ids))

\* The rows of one server, newest first (rows are inserted in time order).
RECURSIVE NewestFirst(_, _)
NewestFirst(pings, s) ==
    IF pings = <<>> THEN <<>>
    ELSE NewestFirst(Tail(pings), s) \o
         (IF Head(pings).server = s THEN <<Head(pings)>> ELSE <<>>)

\* StatusConsumer._fetch_recent_pings(servers, limit)
RECURSIVE _fetch_recent_pings(_, _, _)
_fetch_recent_pings(pings, ids, limit) ==
    IF ids = <<>> THEN <<>>
    ELSE LET latest == NewestFirst(pings, Head(ids))
         IN SubSeq(latest, 1, IF Len(latest) < limit THEN Len(latest) ELSE limit)
            \o _fetch_recent_pings(pings, Tail(ids), limit)

\* The frames a client has been sent in answer to its own messages.
Replies(inbox) == Cardinality({i \in 1..Len(inbox) : inbox[i].type # "update"})

\* StatusConsumer.connect: a scope without an authenticated user is closed
\* with code 4001 before accept(); _groups exists only after authentication.
connect(c) ==
    /\ c \notin DOMAIN sockets
    /\ LET user == Scope[c]
       IN sockets' = [x \in DOMAIN sockets \cup {c} |->
                         IF x # c THEN sockets[x]
                         ELSE [state |-> IF is_authenticated(user)
                                         THEN "open" ELSE "rejected",
                               user |-> user, _groups |-> <<>>, inbox |-> <<>>]]
    /\ UNCHANGED <<clock, settings, network, servers, server_status, ping_results,
                   configs, accounts, running, now, pending, results, event,
                   last_sent, streak, groups, response, job_vars,
                   out_vars>>

\* StatusConsumer.send_latest
send_latest(c, server_ids, limit) ==
    LET ids == _get_servers(servers, server_ids)
    IN /\ sockets' = [sockets EXCEPT ![c].inbox =
                         Append(@, Frame("latest", Range(ids),
                                         _fetch_recent_pings(ping_results, ids, limit),
                                         _fetch_statuses(server_status, ids)))]
       /\ UNCHANGED groups

\* StatusConsumer.subscribe
subscribe(c, server_ids) ==
    LET ids == _get_servers(servers, server_ids)
    IN /\ groups' = [g \in DOMAIN groups |->
                        IF g \in Range(ids) THEN groups[g] \cup {c} ELSE groups[g]]
       /\ sockets' = [sockets EXCEPT
                         ![c]._groups = ids,
                         ![c].inbox = Append(@, Frame("subscribed", Range(ids),
                                                      <<>>, <<>>))]

\* StatusConsumer.receive_json on an accepted connection.
receive_json(c) ==
    /\ c \in DOMAIN sockets
    /\ sockets[c].state = "open"
    /\ Replies(sockets[c].inbox) < MaxFrames
    /\ \E action \in {"latest", "subscribe", "other"},
          server_ids \in SUBSET DOMAIN servers :
          IF action = "latest" THEN send_latest(c, server_ids, 20)
          ELSE IF action = "subscribe" THEN subscribe(c, server_ids)
          ELSE /\ server_ids = {}
               /\ sockets' = [sockets EXCEPT ![c].inbox =
                                 Append(@, Frame("error", {}, <<>>, <<>>))]
               /\ UNCHANGED groups
    /\ UNCHANGED <<clock, settings, network, servers, server_status, ping_results,
                   configs, accounts, running, now, pending, results, event,
                   last_sent, streak, response, job_vars,
                   out_vars>>

\* StatusConsumer.disconnect of an accepted connection: group_discard for
\* every group in self._groups.
disconnect(c) ==
    /\ c \in DOMAIN sockets
    /\ sockets[c].state = "open"
    /\ groups' = [g \in DOMAIN groups |->
                     IF g \in Range(sockets[c]._groups)
                     THEN groups[g] \ {c} ELSE groups[g]]
    /\ sockets' = [sockets EXCEPT ![c].state = "closed"]
    /\ UNCHANGED <<clock, settings, network, servers, server_status, ping_results,
                   configs, accounts, running, now, pending, results, event,
                   last_sent, streak, response, job_vars,
                   out_vars>>

\* ------------------------------------------------------- resumable stream
\* Mutant of the membership lookup: every user is in every organization.
_organization_ids_all(user) == {"org1", "org2"}

\* Membership rows: the organizations of each user.
_organization_ids(user) == IF user = "user1" THEN {"org1"} ELSE {"org2"}

\* One chunk of the event stream: the retry directive, a status or a ping
\* event with its payload (the server, the status, and last_check or
\* check_timestamp), or the heartbeat comment.
Chunk(kind, server, data, at) ==
    [event |-> kind, server |-> server, data |-> data, at |-> at]

\* The ServerStatus rows event_stream selects, ordered by server name.
StreamStatuses(user, status_filter, server_ids, since) ==
    ByName({s \in DOMAIN server_status :
               /\ servers[s].organization \in _organization_ids(user)
               /\ status_filter # "" => server_status[s].status = status_filter
               /\ server_ids # {} => s \in server_ids
               /\ since # None => server_status[s].updated_at > since})

\* The PingResult rows event_stream selects (positions in the table).
StreamPings(user, server_ids, since) ==
    {i \in 1..Len(ping_results) :
        /\ servers[ping_results[i].server].organization \in _organization_ids(user)
        /\ server_ids # {} => ping_results[i].server \in server_ids
        /\ since # None => ping_results[i].check_timestamp > since}

\* The orders in which order_by("-check_timestamp") can return the rows: the
\* order of rows with equal timestamps is the database's choice.
NewestFirstOrders(rows) ==
    {o \in [1..Cardinality(rows) -> rows] :
        /\ \A i, j \in DOMAIN o : i # j => o[i] # o[j]
        /\ \A i, j \in DOMAIN o :
              i < j => ping_results[o[i]].check_timestamp >=
                       ping_results[o[j]].check_timestamp}

\* ServerStatusStreamView.get.event_stream: the chunks the generator yields.
\* Slicing the queryset with a negative limit raises, which ends the body
\* after the status events.
event_stream(user, status_filter, server_ids, since, ping_limit, order) ==
    LET statuses == StreamStatuses(user, status_filter, server_ids, since)
        head == <<Chunk("retry", 0, 5000, None)>> \o
                [i \in 1..Len(statuses) |->
                    Chunk("status", statuses[i], server_status[statuses[i]].status,
                          server_status[statuses[i]].last_check)]
        kept == SubSeq(order, 1, IF Len(order) < ping_limit
                                 THEN Len(order) ELSE ping_limit)
    IN IF ping_limit < 0 THEN head
       ELSE head \o
            [i \in 1..Len(kept) |-> Chunk("ping", ping_results[kept[i]].server,
                                          ping_results[kept[i]].status,
                                          ping_results[kept[i]].check_timestamp)] \o
            <<Chunk("heartbeat", 0, 0, None)>>

\* GET of the status stream by a logged-in user, read to its end.
StreamGet ==
    /\ \E user \in {"user1", "user2"},
          status_filter \in {"", "down"},
          server_ids \in {{}, {1}},
          since \in {None} \cup (0..MaxClock),
          ping_limit \in {-1, 1, DefaultPingLimit} :
          \E order \in NewestFirstOrders(StreamPings(user, server_ids, since)) :
              response' = [served |-> TRUE, user |-> user,
                           status |-> status_filter, server_id |-> server_ids,
                           since |-> since, limit |-> ping_limit,
                           body |-> event_stream(user, status_filter, server_ids,
                                                 since, ping_limit, order)]
    /\ UNCHANGED <<clock, settings, network, servers, server_status, ping_results,
                   configs, accounts, running, now, pending, results, event,
                   last_sent, streak, sockets, groups, job_vars,
                   out_vars>>

\* The greatest element of a non-empty set of times.
Latest(times) == CHOOSE t \in times : \A u \in times : u <= t

\* A poll-and-resume client, a member of the servers' organization, requests
\* the stream with since set to the greatest check_timestamp it has received
\* (no since before it has received any) and the default limit, and reads
\* the response to its end.  A ping event is known by its server and its
\* check_timestamp.
Poll ==
    /\ \E order \in NewestFirstOrders(StreamPings("user1", {}, client.since)) :
          LET body == event_stream("user1", "", {}, client.since,
                                   DefaultPingLimit, order)
              got == {<<body[i].server, body[i].at>> :
                         i \in {j \in 1..Len(body) : body[j].event = "ping"}}
              stamps == {x[2] : x \in got} \cup
                        (IF client.since = None THEN {} ELSE {client.since})
          IN client' = [since |-> IF stamps = {} THEN None ELSE Latest(stamps),
                        received |-> client.received \cup got]
    /\ UNCHANGED <<clock, settings, network, servers, server_status, ping_results,
                   configs, accounts, running, now, pending, results, event,
                   last_sent, streak, observer_vars, job_vars, outbox, report>>

\* -------------------------------------------------------- specifications
\* The check cycle: the clock, the two callers of run_all_checks and its loop.
NextCycle ==
    \/ Tick
    \/ ScheduledRun
    \/ ManualRun
    \/ CheckServer
    \/ FinishCycle

\* The notification dispatcher around one monitored server that answers 200 or
\* 500.  The notification configs of the server exist, enabled or not, since
\* time 0; its organization has a credit account or none; its status row, when
\* it exists before the first check, is up.
Init ==
    /\ \E CS \in SUBSET {1, 2} : \E en \in [CS -> BOOLEAN] :
          configs = [c \in CS |-> [ConfigTemplate(c) EXCEPT
                                      !.enabled = en[c], !.updated_at = 0]]
    /\ settings = [email_enabled |-> TRUE, sms_enabled |-> FALSE]
    /\ network = {e \in NetEvents : e.kind = "response"}
    /\ servers = [s \in {1} |-> Server1]
    /\ \E S \in SUBSET {1} :
          server_status \in [S -> {r \in SeedRows : r.status = "up"}]
    /\ \/ accounts = [a \in {} |-> 0]
       \/ \E n \in 0..MaxCredits :
             accounts = [a \in {"org1"} |->
                            [sms_credits |-> 0, email_credits |-> n]]
    /\ InitCommon

Spec == Init /\ [][NextCycle]_vars

\* The status machine of one server under every probe outcome, from no row or
\* from any seed row; no notification config exists.
InitStatus ==
    /\ configs = [c \in {} |-> ConfigTemplate(c)]
    /\ settings = [email_enabled |-> TRUE, sms_enabled |-> FALSE]
    /\ network = NetEvents
    /\ servers = [s \in {1} |-> Server1]
    /\ \E S \in SUBSET {1} : server_status \in [S -> SeedRows]
    /\ accounts = [a \in {} |-> 0]
    /\ InitCommon

SpecStatus == InitStatus /\ [][NextCycle]_vars

\* The cooldown of one email recipient whose config the API creates and edits
\* while the server, which answers 200 or 500 and has no credit account, is
\* being checked.
InitCooldown ==
    /\ configs = [c \in {} |-> ConfigTemplate(c)]
    /\ settings = [email_enabled |-> TRUE, sms_enabled |-> FALSE]
    /\ network = {e \in NetEvents : e.kind = "response"}
    /\ servers = [s \in {1} |-> Server1]
    /\ \E S \in SUBSET {1} :
          server_status \in [S -> {r \in SeedRows : r.status = "up"}]
    /\ accounts = [a \in {} |-> 0]
    /\ InitCommon

NextCooldown ==
    \/ NextCycle
    \/ CreateConfig(1)
    \/ EditConfig(1)

SpecCooldown == InitCooldown /\ [][NextCooldown]_vars

\* Two servers of one organization, an https one with an email and a webhook
\* recipient and a tcp one with an SMS recipient, all enabled since time 0;
\* the organization has a credit account or none; SMS is switched on in the
\* settings.  No server has been checked yet.
InitFleet ==
    /\ configs = [c \in ConfigIds |-> [ConfigTemplate(c) EXCEPT !.updated_at = 0]]
    /\ settings = [email_enabled |-> TRUE, sms_enabled |-> TRUE]
    /\ network = NetEvents
    /\ servers = [s \in ServerIds |-> IF s = 1 THEN Server1 ELSE Server2]
    /\ server_status = [s \in {} |-> DefaultStatus]
    /\ \/ accounts = [a \in {} |-> 0]
       \/ \E n \in 0..MaxCredits, m \in 0..MaxCredits :
             accounts = [a \in {"org1"} |->
                            [sms_credits |-> m, email_credits |-> n]]
    /\ InitCommon

SpecFleet == InitFleet /\ [][NextCycle]_vars

\* Websocket observers of two servers that answer their probes; connections
\* open, send messages and close while the servers are being checked.  The
\* wall clock plays no part and stands still.
InitSocket ==
    /\ configs = [c \in {} |-> ConfigTemplate(c)]
    /\ settings = [email_enabled |-> TRUE, sms_enabled |-> FALSE]
    /\ network = {e \in NetEvents : e.kind \in {"response", "connected"}}
    /\ servers = [s \in ServerIds |-> IF s = 1 THEN Server1 ELSE Server2]
    /\ server_status = [s \in {} |-> DefaultStatus]
    /\ accounts = [a \in {} |-> 0]
    /\ InitCommon

NextSocket ==
    \/ ScheduledRun
    \/ ManualRun
    \/ CheckServer
    \/ FinishCycle
    \/ \E c \in Conns : connect(c)
    \/ \E c \in Conns : receive_json(c)
    \/ \E c \in Conns : disconnect(c)

SpecSocket == InitSocket /\ [][NextSocket]_vars

\* The status stream of two servers that answer their probes, requested by a
\* member of their organization and by a user of another one while the
\* servers are being checked.
InitStream ==
    /\ configs = [c \in {} |-> ConfigTemplate(c)]
    /\ settings = [email_enabled |-> TRUE, sms_enabled |-> FALSE]
    /\ network = {e \in NetEvents : e.kind \in {"response", "connected"}}
    /\ servers = [s \in ServerIds |-> IF s = 1 THEN Server1 ELSE Server2]
    /\ server_status = [s \in {} |-> DefaultStatus]
    /\ accounts = [a \in {} |-> 0]
    /\ InitCommon

NextStream ==
    \/ NextCycle
    \/ StreamGet

SpecStream == InitStream /\ [][NextStream]_vars

\* A poll-and-resume client of the stream of two servers that answer their
\* probes, polling at any moment, also between two checks of a cycle.  As
\* with a real clock, a cycle starts at a time later than every earlier
\* cycle's.
InitPoll ==
    /\ configs = [c \in {} |-> ConfigTemplate(c)]
    /\ settings = [email_enabled |-> TRUE, sms_enabled |-> FALSE]
    /\ network = {e \in NetEvents : e.kind \in {"response", "connected"}}
    /\ servers = [s \in ServerIds |-> IF s = 1 THEN Server1 ELSE Server2]
    /\ server_status = [s \in {} |-> DefaultStatus]
    /\ accounts = [a \in {} |-> 0]
    /\ InitCommon

\* Every persisted check is older than the wall clock.
Fresh == \A i \in 1..Len(ping_results) : ping_results[i].check_timestamp < clock

NextPoll ==
    \/ Tick
    \/ Fresh /\ ScheduledRun
    \/ CheckServer
    \/ FinishCycle
    \/ Poll

SpecPoll == InitPoll /\ [][NextPoll]_vars

\* The scheduler's job and the manual trigger side by side over one server
\* that answers 200 or 500 and whose email recipient, which exists since time
\* 0, has a cooldown of 0 seconds; its organization has a credit account.
\* The wall clock plays no part and stands still.
InitOverlap ==
    /\ configs = [c \in {1} |-> [ConfigTemplate(c) EXCEPT
                                    !.updated_at = 0,
                                    !.min_notification_interval = 0]]
    /\ settings = [email_enabled |-> TRUE, sms_enabled |-> FALSE]
    /\ network = {e \in NetEvents : e.kind = "response"}
    /\ servers = [s \in {1} |-> Server1]
    /\ server_status = [s \in {} |-> DefaultStatus]
    /\ \E n \in 0..MaxCredits :
          accounts = [a \in {"org1"} |-> [sms_credits |-> 0, email_credits |-> n]]
    /\ InitCommon

\* The callers that overlap in SpecOverlap.
Overlapping == {"scheduler", "web"}

NextOverlap ==
    \/ SchedulerFires
    \/ RunChecksPost
    \/ \E p \in Overlapping : JobProbe(p)
    \/ \E p \in Overlapping : JobCreate(p)
    \/ \E p \in Overlapping : JobGet(p)
    \/ \E p \in Overlapping : JobSave(p)
    \/ \E p \in Overlapping : JobBroadcast(p)
    \/ \E p \in Overlapping : JobSelect(p)
    \/ \E p \in Overlapping : JobTransport(p)
    \/ \E p \in Overlapping : JobReturn(p)

SpecOverlap == InitOverlap /\ [][NextOverlap]_vars

\* The administrative triggers, one call at a time, over two servers under
\* every probe outcome; the first server has an email recipient that exists
\* since time 0 and no credit account.
InitTrigger ==
    /\ configs = [c \in {1} |-> [ConfigTemplate(c) EXCEPT !.updated_at = 0]]
    /\ settings = [email_enabled |-> TRUE, sms_enabled |-> FALSE]
    /\ network = NetEvents
    /\ servers = [s \in ServerIds |-> IF s = 1 THEN Server1 ELSE Server2]
    /\ server_status = [s \in {} |-> DefaultStatus]
    /\ accounts = [a \in {} |-> 0]
    /\ InitCommon

\* No run_all_checks call is in flight.
Quiet == \A p \in Callers : jobs[p].pc = "idle"

\* The callers of SpecTrigger.
Triggers == {"web", "command"}

NextTrigger ==
    \/ Tick
    \/ Quiet /\ RunChecksPost
    \/ Quiet /\ CommandHandle
    \/ \E p \in Triggers : JobProbe(p)
    \/ \E p \in Triggers : JobCreate(p)
    \/ \E p \in Triggers : JobGet(p)
    \/ \E p \in Triggers : JobSave(p)
    \/ \E p \in Triggers : JobBroadcast(p)
    \/ \E p \in Triggers : JobSelect(p)
    \/ \E p \in Triggers : JobTransport(p)
    \/ \E p \in Triggers : JobReturn(p)

SpecTrigger == InitTrigger /\ [][NextTrigger]_vars

\* The billing of one server that answers 200 or 500 and has an email
\* recipient since time 0: the server belongs to an organization or to none,
\* has an owner or none, and the organization and the owner each have a credit
\* account or none.
InitBilling ==
    /\ configs = [c \in {1} |-> [ConfigTemplate(c) EXCEPT !.updated_at = 0]]
    /\ settings = [email_enabled |-> TRUE, sms_enabled |-> FALSE]
    /\ network = {e \in NetEvents : e.kind = "response"}
    /\ \E org \in {NoOrg, "org1"}, owner \in {NoOwner, "user1"} :
          servers = [s \in {1} |-> [Server1 EXCEPT !.organization = org,
                                                  !.owner = owner]]
    /\ server_status = [s \in {} |-> DefaultStatus]
    /\ \E holders \in SUBSET {"org1", "user1"} :
          \E n \in [holders -> 0..MaxCredits] :
             accounts = [a \in holders |->
                            [sms_credits |-> 0, email_credits |-> n[a]]]
    /\ InitCommon

SpecBilling == InitBilling /\ [][NextCycle]_vars

\* The probe of one server of any protocol, an unsupported one included,
\* against everything the network can do to it; no status row exists and no
\* notification config.
InitProbe ==
    /\ configs = [c \in {} |-> ConfigTemplate(c)]
    /\ settings = [email_enabled |-> TRUE, sms_enabled |-> FALSE]
    /\ network = NetEvents \cup Responses
    /\ \E protocol \in PROTOCOL_CHOICES \cup {"ftp"} :
          servers = [s \in {1} |-> [Server1 EXCEPT !.protocol = protocol]]
    /\ server_status = [s \in {} |-> DefaultStatus]
    /\ accounts = [a \in {} |-> 0]
    /\ InitCommon

SpecProbe == InitProbe /\ [][NextCycle]_vars

\* Two servers of two organizations, checked by the scheduler (both) and by
\* the manual trigger of either organization (one of them); a probe is
\* answered.  A status row that exists before the first check is
\* up, with the threshold MaxThreshold and an uptime of 50 percent.
InitFrame ==
    /\ configs = [c \in {} |-> ConfigTemplate(c)]
    /\ settings = [email_enabled |-> TRUE, sms_enabled |-> FALSE]
    /\ network = {e \in NetEvents : e.kind \in {"response", "connected"}}
    /\ servers = [s \in ServerIds |-> IF s = 1 THEN Server1 ELSE OtherTenantServer]
    /\ \E S \in SUBSET ServerIds :
          server_status \in
              [S -> {[r EXCEPT !.uptime_percentage = 50] :
                        r \in {x \in SeedRows : /\ x.status = "up"
                                                /\ x.failure_threshold = MaxThreshold}}]
    /\ accounts = [a \in {} |-> 0]
    /\ InitCommon

SpecFrame == InitFrame /\ [][NextCycle]_vars

\* The scheduler's cycle over two servers, the second active or not, under
\* every probe outcome; the first server has an email recipient with a
\* cooldown of 0 seconds whose transport accepts or fails.  The wall clock
\* plays no part and stands still.  The thread that runs a cycle keeps
\* running: every probe returns within the server's timeout and every
\* transport call returns or fails, so the next iteration of the loop, and
\* the return after the last one, are eventually taken.
InitLive ==
    /\ configs = [c \in {1} |-> [ConfigTemplate(c) EXCEPT
                                    !.updated_at = 0,
                                    !.min_notification_interval = 0]]
    /\ settings = [email_enabled |-> TRUE, sms_enabled |-> FALSE]
    /\ network = NetEvents
    /\ \E second \in {"active", "inactive"} :
          servers = [s \in ServerIds |->
                        IF s = 1 THEN Server1
                        ELSE [Server2 EXCEPT !.status = second]]
    /\ server_status = [s \in {} |-> DefaultStatus]
    /\ accounts = [a \in {} |-> 0]
    /\ InitCommon

\* The active servers, in the order of the scheduler's queryset.
ActiveServers == ByName({s \in DOMAIN servers : servers[s].status = "active"})

\* The PingResult table has room for one more cycle over the active servers.
Room == Len(ping_results) + Len(ActiveServers) <= MaxPings

NextLive ==
    \/ Room /\ ScheduledRun
    \/ CheckServer
    \/ FinishCycle

SpecLive ==
    /\ InitLive
    /\ [][NextLive]_vars
    /\ WF_vars(CheckServer)
    /\ WF_vars(FinishCycle)

\* The three channels with either channel switch on or off: two servers of
\* one organization whose probes are answered, an email, a webhook and an SMS
\* recipient since time 0, and a credit account of the organization.
InitSkips ==
    /\ configs = [c \in ConfigIds |-> [ConfigTemplate(c) EXCEPT !.updated_at = 0]]
    /\ settings \in [email_enabled : BOOLEAN, sms_enabled : BOOLEAN]
    /\ network = {e \in NetEvents : e.kind \in {"response", "connected"}}
    /\ servers = [s \in ServerIds |-> IF s = 1 THEN Server1 ELSE Server2]
    /\ server_status = [s \in {} |-> DefaultStatus]
    /\ \E n \in 0..MaxCredits, m \in 0..MaxCredits :
          accounts = [a \in {"org1"} |->
                         [sms_credits |-> m, email_credits |-> n]]
    /\ InitCommon

SpecSkips == InitSkips /\ [][NextCycle]_vars

\* The status stream of two servers of two organizations, requested by a
\* member of either organization while the scheduler checks both servers,
\* whose probes succeed.  As with a real clock, a cycle starts at a time
\* later than every earlier cycle's.
InitTenant ==
    /\ configs = [c \in {} |-> ConfigTemplate(c)]
    /\ settings = [email_enabled |-> TRUE, sms_enabled |-> FALSE]
    /\ network = {e \in NetEvents : e.kind = "connected" \/ e.code = 200}
    /\ servers = [s \in ServerIds |-> IF s = 1 THEN Server1 ELSE OtherTenantServer]
    /\ server_status = [s \in {} |-> DefaultStatus]
    /\ accounts = [a \in {} |-> 0]
    /\ InitCommon

NextTenant ==
    \/ Tick
    \/ Fresh /\ ScheduledRun
    \/ CheckServer
    \/ FinishCycle
    \/ StreamGet

SpecTenant == InitTenant /\ [][NextTenant]_vars

\* Websocket observers of two servers of two organizations whose probes are
\* answered; the logged-in user is a member of the first organization only.
\* The wall clock plays no part and stands still.
InitSocketTenant ==
    /\ configs = [c \in {} |-> ConfigTemplate(c)]
    /\ settings = [email_enabled |-> TRUE, sms_enabled |-> FALSE]
    /\ network = {e \in NetEvents : e.kind \in {"response", "connected"}}
    /\ servers = [s \in ServerIds |-> IF s = 1 THEN Server1 ELSE OtherTenantServer]
    /\ server_status = [s \in {} |-> DefaultStatus]
    /\ accounts = [a \in {} |-> 0]
    /\ InitCommon

SpecSocketTenant == InitSocketTenant /\ [][NextSocket]_vars

\* ------------------------------------------------------------ properties
\* The row of the server the most recent loop iteration checked.
Checked == server_status[event.server]

NonSuccess(outcome) == outcome \in {"failure", "timeout", "error"}

\* C1: every ServerStatus row satisfies the status invariant: down implies
\* consecutive_failures >= failure_threshold, degraded implies
\* 0 < consecutive_failures < failure_threshold, up implies
\* consecutive_failures = 0.
C1_StatusInvariant ==
    \A s \in DOMAIN server_status :
        LET r == server_status[s] IN
        /\ r.status = "down" => r.consecutive_failures >= r.failure_threshold
        /\ r.status = "degraded" =>
              /\ 0 < r.consecutive_failures
              /\ r.consecutive_failures < r.failure_threshold
        /\ r.status = "up" => r.consecutive_failures = 0

\* A check has left a row down with more failures than its threshold.
C1_Witness ==
    /\ event.server # 0
    /\ event.status_after = "down"
    /\ Checked.consecutive_failures > Checked.failure_threshold

\* C2: with threshold T >= 1, k non-success outcomes in a row after
\* consecutive_failures was 0 leave the status degraded when 1 <= k <= T - 1
\* and down when k >= T; with T = 1 the first failure gives down and
\* consecutive_failures = 1.
C2_StreakDecidesStatus ==
    \A s \in DOMAIN server_status :
        LET r == server_status[s]
            k == streak[s]
        IN (k # None /\ k >= 1 /\ r.failure_threshold >= 1) =>
              /\ k <= r.failure_threshold - 1 => r.status = "degraded"
              /\ k >= r.failure_threshold => r.status = "down"
              /\ (k = 1 /\ r.failure_threshold = 1) =>
                    r.consecutive_failures = 1

\* A streak as long as a threshold of at least 2 has taken a server down.
C2_Witness ==
    \E s \in DOMAIN server_status :
        /\ streak[s] >= 2
        /\ streak[s] = server_status[s].failure_threshold
        /\ server_status[s].status = "down"

\* C3, as stated: no check changes a status from up directly to down.
C3_NeverUpToDown ==
    [][\A s \in DOMAIN server_status :
          server_status[s].status = "up" => server_status'[s].status # "down"]_vars

\* C3, amended: with a threshold of at least 2 a check of an up server leaves it
\* up or degraded, so every path from up to down passes through degraded.
C3_NeverUpToDownAboveOne ==
    [][\A s \in DOMAIN server_status :
          (server_status[s].status = "up"
           /\ server_status[s].failure_threshold >= 2) =>
              server_status'[s].status \in {"up", "degraded"}]_vars

\* A server with threshold 2 went up, then degraded, then down.
C3_Witness ==
    /\ Len(ping_results) = 3
    /\ ping_results[1].status = "success"
    /\ NonSuccess(ping_results[2].status)
    /\ NonSuccess(ping_results[3].status)
    /\ event.status_before = "degraded"
    /\ event.status_after = "down"
    /\ Checked.failure_threshold = 2

\* C4: a non-success outcome raises consecutive_failures by exactly 1 and a
\* success sets it to exactly 0.
C4_CounterSteps ==
    event.server # 0 =>
        /\ NonSuccess(event.outcome) =>
              Checked.consecutive_failures = event.failures_before + 1
        /\ event.outcome = "success" => Checked.consecutive_failures = 0

\* The first success after a streak of at least two failures.
C4_Witness ==
    /\ event.outcome = "success"
    /\ event.failures_before >= 2
    /\ Checked.consecutive_failures = 0

\* ------------------------------------------------- dispatcher properties
\* The configs of the checked server that the most recent check attempted.
Attempted == {event.attempts[i].config : i \in 1..Len(event.attempts)}

\* The enabled configs of the checked server.
EnabledConfigs ==
    {c \in DOMAIN configs : configs[c].server = event.server /\ configs[c].enabled}

\* Every config is attempted at most once per check.
AttemptedOnce == Len(event.attempts) = Cardinality(Attempted)

\* C5: the dispatcher is invoked for a check iff the status stored before the
\* check differs from the status the check computes; a check that creates the
\* status row compares against unknown and is always dispatched.
C5_DispatchedIffChanged ==
    event.server # 0 =>
        /\ event.dispatched <=> event.status_before # event.status_after
        /\ event.created => event.status_before = "unknown" /\ event.dispatched

\* The first check of a server without a status row succeeds and is dispatched.
C5_Witness ==
    /\ event.server # 0
    /\ event.created
    /\ event.dispatched
    /\ event.status_after = "up"

\* C6 (as stated): a change from degraded to down sends no notification to any
\* config on any channel.
C6_DegradedToDownSilent ==
    (event.status_before = "degraded" /\ event.status_after = "down") =>
        \A i \in 1..Len(event.attempts) : event.attempts[i].result # "sent"

\* C6 (amended): a change from degraded to down is dispatched as a failure
\* alert: a failure notification is attempted, once, to every enabled config of
\* the server with notify_on_failure set, and to no other config.
C6_DegradedToDownAlerts ==
    (event.status_before = "degraded" /\ event.status_after = "down") =>
        /\ event.dispatched
        /\ Attempted = {c \in EnabledConfigs : configs[c].notify_on_failure}
        /\ AttemptedOnce
        /\ \A i \in 1..Len(event.attempts) : event.attempts[i].kind = "failure"

\* A change from degraded to down has sent a failure email.
C6_Witness ==
    /\ event.status_before = "degraded"
    /\ event.status_after = "down"
    /\ \E i \in 1..Len(event.attempts) :
          /\ event.attempts[i].config = 1
          /\ event.attempts[i].kind = "failure"
          /\ event.attempts[i].result = "sent"

\* C7: a change from degraded to down never produces a notification classified
\* as recovery, and a check whose status is up before and after produces no
\* notification at all.
C7_RecoveryOnlyFiring ==
    /\ (event.status_before = "degraded" /\ event.status_after = "down") =>
          \A i \in 1..Len(event.attempts) : event.attempts[i].kind # "recovery"
    /\ (event.status_before = "up" /\ event.status_after = "up") =>
          event.attempts = <<>>

\* A change from degraded to down has attempted both configs of the server,
\* the webhook among them.
C7_Witness ==
    /\ event.status_before = "degraded"
    /\ event.status_after = "down"
    /\ Attempted = {1, 2}
    /\ \E i \in 1..Len(event.attempts) :
          event.attempts[i].config = 2 /\ event.attempts[i].result # "rate_limited"

\* C8: a success outcome on a server that is down or degraded leaves it up with
\* consecutive_failures = 0 and last_up = now, and a recovery notification is
\* attempted, once, to every enabled config of the server with
\* notify_on_recovery set, and to no other config.
C8_RecoveryScenario ==
    (event.status_before \in {"down", "degraded"} /\ event.outcome = "success") =>
        /\ Checked.status = "up"
        /\ Checked.consecutive_failures = 0
        /\ Checked.last_up = event.now
        /\ event.dispatched
        /\ Attempted = {c \in EnabledConfigs : configs[c].notify_on_recovery}
        /\ AttemptedOnce
        /\ \A i \in 1..Len(event.attempts) : event.attempts[i].kind = "recovery"

\* A down server has recovered: the recovery email is sent and the enabled
\* failure-only webhook is left alone.
C8_Witness ==
    /\ event.status_before = "down"
    /\ event.outcome = "success"
    /\ 2 \in EnabledConfigs
    /\ Attempted = {1}
    /\ event.attempts[1].kind = "recovery"
    /\ event.attempts[1].result = "sent"

\* --------------------------------------------------- cooldown properties
\* The time of the last send to config c before the most recent check, None
\* when nothing was ever sent to it.
LastSendBefore(c) == event.sent_before[c]

\* C9: the cooldown of a config with min_interval I is measured from the last
\* send to it: of two notable transitions within I of each other the first is
\* sent and the second is skipped, and a transition I or more after that send
\* is sent again.  So an attempt is skipped as rate limited exactly when
\* something was sent to the config less than I before.
C9_CooldownFromLastSend ==
    \A i \in 1..Len(event.attempts) :
        LET a == event.attempts[i]
            t == LastSendBefore(a.config)
            I == configs[a.config].min_notification_interval
        IN a.result = "rate_limited" <=> (t # None /\ event.at - t < I)

\* C10: a config to which nothing has ever been sent is never skipped as rate
\* limited, whatever its creation time and min_interval.
C10_NeverSentIsEligible ==
    \A i \in 1..Len(event.attempts) :
        LastSendBefore(event.attempts[i].config) = None =>
            event.attempts[i].result # "rate_limited"

\* ----------------------------------------------------- credit properties
\* The i-th attempt of the most recent check, the type of its config and the
\* account its server resolves to when the attempt starts.
Attempt(i) == event.attempts[i]

AttemptType(i) == configs[Attempt(i).config].notification_type

AttemptAccount(i) == _get_account(Attempt(i).before, servers[event.server])

\* The counter that pays for a notification of the given type.
Credits(account, type) ==
    IF type = "email" THEN account.email_credits ELSE account.sms_credits

\* C11: an email (SMS) attempt that is otherwise eligible and whose resolved
\* account has email_credits = 0 (sms_credits = 0) is skipped without a
\* transport call and without a change of the ledger or of the cursor, and
\* no credit counter is ever negative.
C11_ExhaustedCreditsSkip ==
    /\ \A a \in DOMAIN accounts :
          accounts[a].email_credits >= 0 /\ accounts[a].sms_credits >= 0
    /\ \A i \in 1..Len(event.attempts) :
          (/\ AttemptType(i) \in {"email", "sms"}
           /\ Attempt(i).result \notin {"rate_limited", "channel_disabled"}
           /\ AttemptAccount(i) # NoAccount
           /\ Credits(Attempt(i).before[AttemptAccount(i)], AttemptType(i)) = 0)
          => /\ Attempt(i).result = "no_credits"
             /\ Attempt(i).after = Attempt(i).before
             /\ Attempt(i).cursor = Attempt(i).cursor_before

\* A recovery email is skipped for lack of credits after an earlier send has
\* used the last one.
C11_Witness ==
    /\ "org1" \in DOMAIN accounts
    /\ delivered["org1"] > 0
    /\ accounts["org1"].email_credits = 0
    /\ \E i \in 1..Len(event.attempts) :
          /\ AttemptType(i) = "email"
          /\ Attempt(i).kind = "recovery"
          /\ Attempt(i).result = "no_credits"

\* C12: a successful email send takes exactly 1 from email_credits of the
\* resolved account and a successful SMS send exactly 1 from its sms_credits,
\* the other counter staying as it was; a successful webhook send changes no
\* counter; every successful send stamps the config's cursor.
C12_SendConsumesOneCredit ==
    \A i \in 1..Len(event.attempts) :
        Attempt(i).result = "sent" =>
            LET a == AttemptAccount(i)
                b == Attempt(i).before
                d == Attempt(i).after
            IN /\ Attempt(i).cursor = event.at
               /\ DOMAIN d = DOMAIN b
               /\ \A x \in DOMAIN b \ {a} : d[x] = b[x]
               /\ (a # NoAccount /\ AttemptType(i) = "email") =>
                     /\ d[a].email_credits = b[a].email_credits - 1
                     /\ d[a].sms_credits = b[a].sms_credits
               /\ (a # NoAccount /\ AttemptType(i) = "sms") =>
                     /\ d[a].sms_credits = b[a].sms_credits - 1
                     /\ d[a].email_credits = b[a].email_credits
               /\ AttemptType(i) = "webhook" => d = b

\* An SMS was sent while the account held an email credit as well.
C12_Witness ==
    \E i \in 1..Len(event.attempts) :
        /\ AttemptType(i) = "sms"
        /\ Attempt(i).result = "sent"
        /\ AttemptAccount(i) = "org1"
        /\ Attempt(i).before["org1"].email_credits > 0
        /\ Attempt(i).after["org1"].sms_credits = 0

\* ---------------------------------------------- error handling properties
\* A step that is one iteration of the loop of run_all_checks.
IsCheckStep == ping_results' # ping_results

\* C15: when the send to one selected config fails in its transport, every
\* selected config of the transition is still attempted, each once, and the
\* cycle goes on: the iteration appends its result and the cycle stays in
\* flight with the remaining servers.
C15_ChannelFailuresIsolated ==
    [][(IsCheckStep /\ \E i \in 1..Len(event'.attempts) :
                           event'.attempts[i].result = "failed")
       => /\ {event'.attempts[i].config : i \in 1..Len(event'.attempts)} =
                {c \in DOMAIN configs :
                    /\ configs[c].server = event'.server
                    /\ configs[c].enabled
                    /\ IF event'.status_after = "up"
                       THEN configs[c].notify_on_recovery
                       ELSE configs[c].notify_on_failure}
          /\ Len(event'.attempts) =
                Cardinality({event'.attempts[i].config :
                                i \in 1..Len(event'.attempts)})
          /\ running'
          /\ pending' = Tail(pending)
          /\ results' = Append(results, <<event'.server, event'.outcome>>)]_vars

\* The mail transport failed and the webhook of the same transition was sent.
C15_Witness ==
    /\ Len(event.attempts) = 2
    /\ Attempt(1).config = 1 /\ Attempt(1).result = "failed"
    /\ Attempt(2).config = 2 /\ Attempt(2).result = "sent"
    /\ results # <<>>

\* C16: every probe outcome is data.  An iteration of the loop appends exactly
\* one PingResult with the outcome for the server at the head of the input,
\* updates that server's ServerStatus, appends (server_id, outcome) to the
\* results and leaves the remaining servers to be checked; the call returns
\* only when no server remains; no step modifies or deletes an existing
\* PingResult row.
C16_ProbeFailuresAreData ==
    [][/\ Len(ping_results') >= Len(ping_results)
       /\ \A i \in 1..Len(ping_results) : ping_results'[i] = ping_results[i]
       /\ (~running /\ running') => results' = <<>>
       /\ (running /\ ~running') => pending = <<>> /\ results' = results
       /\ IsCheckStep =>
             LET s == Head(pending)
                 ping == ping_results'[Len(ping_results')]
             IN /\ Len(ping_results') = Len(ping_results) + 1
                /\ ping.server = s
                /\ ping.status \in PING_STATUS_CHOICES
                /\ ping.check_timestamp = now
                /\ s \in DOMAIN server_status'
                /\ server_status'[s].last_check = now
                /\ server_status'[s].status =
                      IF ping.status = "success" THEN "up"
                      ELSE IF server_status'[s].consecutive_failures >=
                              server_status'[s].failure_threshold
                      THEN "down" ELSE "degraded"
                /\ results' = Append(results, <<s, ping.status>>)
                /\ pending' = Tail(pending)
                /\ running']_vars

\* A cycle over two servers has returned after a transport error of the first
\* and a timeout of the second.
C16_Witness ==
    /\ ~running
    /\ results = <<<<1, "error">>, <<2, "timeout">>>>
    /\ Len(ping_results) = 2
    /\ ping_results[1].status = "error"
    /\ ping_results[1].error_message # ""
    /\ ping_results[2].status = "timeout"
    /\ server_status[2].status = "degraded"

\* --------------------------------------------------- observer properties
\* The groups of the channel layer that connection c is a member of.
Memberships(c) == {g \in DOMAIN groups : c \in groups[g]}

\* C17: a connection without a valid authenticated identity is closed without
\* being accepted: it joins no group and is never sent a frame, neither a
\* latest snapshot nor an update.
C17_AnonymousRejected ==
    \A c \in DOMAIN sockets :
        sockets[c].user = AnonymousUser =>
            /\ sockets[c].state = "rejected"
            /\ Memberships(c) = {}
            /\ sockets[c].inbox = <<>>

\* The anonymous connection was turned away while the logged-in one, which
\* subscribed, has been pushed an update.
C17_Witness ==
    /\ 2 \in DOMAIN sockets
    /\ sockets[2].state = "rejected"
    /\ 1 \in DOMAIN sockets
    /\ \E i \in 1..Len(sockets[1].inbox) : sockets[1].inbox[i].type = "update"

\* C18: after disconnect the observer's channel is a member of no server_<id>
\* group, whatever subscribe messages it sent while connected.
C18_DisconnectReleasesAll ==
    \A c \in DOMAIN sockets :
        sockets[c].state = "closed" => Memberships(c) = {}

\* The positions of the subscribed replies in an inbox.
SubscribedAt(inbox) == {i \in 1..Len(inbox) : inbox[i].type = "subscribed"}

\* The servers listed in the most recent subscribed reply.
LastSubscribed(inbox) ==
    inbox[CHOOSE i \in SubscribedAt(inbox) :
              \A j \in SubscribedAt(inbox) : j <= i].servers

\* C19: once a subscribe has been answered, every check of a server listed in
\* the observer's most recent subscribed reply pushes one update with that
\* check's ping to the observer, and a check of a server not listed there
\* pushes nothing to it.
C19_UpdatesFollowLastSubscribe ==
    [][IsCheckStep =>
          \A c \in DOMAIN sockets :
              (sockets[c].state = "open" /\ SubscribedAt(sockets[c].inbox) # {}) =>
                  IF Head(pending) \in LastSubscribed(sockets[c].inbox)
                  THEN /\ Len(sockets'[c].inbox) = Len(sockets[c].inbox) + 1
                       /\ SubSeq(sockets'[c].inbox, 1, Len(sockets[c].inbox)) =
                             sockets[c].inbox
                       /\ LET frame == sockets'[c].inbox[Len(sockets'[c].inbox)]
                          IN /\ frame.type = "update"
                             /\ frame.servers = {Head(pending)}
                             /\ frame.pings =
                                   <<ping_results'[Len(ping_results')]>>
                  ELSE sockets'[c].inbox = sockets[c].inbox]_vars

\* ----------------------------------------------------- stream properties
\* C20: the body of every stream response is one retry directive, then status
\* events, then ping events with no status event after a ping event, then one
\* heartbeat marker, which ends it.
C20_StreamShape ==
    response.served =>
        LET body == response.body
            n == Len(body)
        IN /\ n >= 2
           /\ body[1].event = "retry"
           /\ body[n].event = "heartbeat"
           /\ \A i \in 2..(n - 1) : body[i].event \in {"status", "ping"}
           /\ \A i, j \in 2..(n - 1) :
                 i < j => ~(body[i].event = "ping" /\ body[j].event = "status")

\* C21: with a since cursor the stream emits only status rows whose
\* updated_at is strictly newer than the cursor and only ping rows whose
\* check_timestamp is strictly newer; with since in the future it emits no
\* status and no ping event while the retry directive and the heartbeat are
\* still present.
C21_SinceCursor ==
    [][(response' # response /\ response'.since # None) =>
          LET body == response'.body
              n == Len(body)
          IN /\ \A i \in 1..n :
                   /\ body[i].event = "status" =>
                         server_status[body[i].server].updated_at > response'.since
                   /\ body[i].event = "ping" => body[i].at > response'.since
             /\ response'.since > clock =>
                   /\ \A i \in 1..n : body[i].event \notin {"status", "ping"}
                   /\ n >= 2
                   /\ body[1].event = "retry"
                   /\ body[n].event = "heartbeat"]_vars

\* C29: a client that polls the stream, each time with since set to the
\* greatest check timestamp it has received, eventually receives every
\* PingResult of its servers, also when a poll falls in the middle of a
\* cycle: a persisted row it has not received yet is newer than its cursor,
\* so that a later poll returns it.
C29_PollReceivesEveryPing ==
    \A i \in 1..Len(ping_results) :
        LET ping == ping_results[i] IN
        (/\ client.since # None
         /\ <<ping.server, ping.check_timestamp>> \notin client.received) =>
            ping.check_timestamp > client.since

\* ------------------------------------------------- concurrency properties
\* C13: decrements of one ledger row are serialized.  Under every interleaving
\* of senders that share an account, the counters have dropped by exactly the
\* number of successful credited sends, and no more sends have succeeded than
\* credits were granted.
C13_NoLostDecrement ==
    \A a \in DOMAIN accounts :
        /\ accounts[a].email_credits + accounts[a].sms_credits =
              granted[a] - delivered[a]
        /\ delivered[a] <= granted[a]

\* C14: at most one cycle is in flight: while a call of run_all_checks has not
\* returned, no trigger starts another one.
C14_SingleFlight ==
    Cardinality({p \in Callers : jobs[p].pc # "idle"}) <= 1

\* ------------------------------------------------ status row, continued
\* C23: once consecutive_failures >= failure_threshold, a further non-success
\* outcome leaves the status down and raises consecutive_failures by 1; the
\* check is no notable transition and no notification is attempted.
C23_SaturationStable ==
    (/\ event.server # 0
     /\ NonSuccess(event.outcome)
     /\ event.failures_before >= Checked.failure_threshold) =>
        /\ event.status_before = "down"
        /\ event.status_after = "down"
        /\ Checked.status = "down"
        /\ Checked.consecutive_failures = event.failures_before + 1
        /\ ~event.dispatched
        /\ event.attempts = <<>>

\* A server that is down fails once more while a recipient of failure alerts
\* is enabled for it, and its counter passes the threshold.
C23_Witness ==
    /\ event.server # 0
    /\ NonSuccess(event.outcome)
    /\ event.failures_before >= Checked.failure_threshold
    /\ Checked.consecutive_failures > Checked.failure_threshold
    /\ \E c \in EnabledConfigs : configs[c].notify_on_failure

\* The PingResult row the most recent check stored.
LastPing == ping_results[Len(ping_results)]

\* C24: the row a check persists equals the reference reduce of the prior row
\* (or of the default row), the outcome and the cycle's now: last_check = now;
\* on success consecutive_failures = 0, status = up, last_up = now, message =
\* "OK"; on a non-success outcome consecutive_failures is one more, last_down
\* = now, message = the outcome's error_message if non-empty else its status,
\* and status = down if the new count >= failure_threshold else degraded.
C24_RowEqualsReduce ==
    event.server # 0 =>
        /\ Checked.last_check = event.now
        /\ event.outcome = "success" =>
              /\ Checked.consecutive_failures = 0
              /\ Checked.status = "up"
              /\ Checked.last_up = event.now
              /\ Checked.message = "OK"
        /\ event.outcome # "success" =>
              /\ Checked.consecutive_failures = event.failures_before + 1
              /\ Checked.last_down = event.now
              /\ Checked.message = IF LastPing.error_message # ""
                                   THEN LastPing.error_message
                                   ELSE LastPing.status
              /\ Checked.status =
                    IF event.failures_before + 1 >= Checked.failure_threshold
                    THEN "down" ELSE "degraded"

\* The first check of a server creates its row from a transport error, whose
\* text becomes the message, at a time later than 0; the row is degraded.
C24_Witness ==
    /\ event.server # 0
    /\ event.created
    /\ event.outcome = "error"
    /\ event.now > 0
    /\ Checked.message = "connection refused"
    /\ Checked.status = "degraded"
    /\ Checked.last_down = event.now
    /\ Checked.last_up = None

\* ------------------------------------------------- selection of configs
\* C30: for a notable transition a send is attempted only to configs of the
\* checked server that are enabled and whose direction flag matches the
\* classification (notify_on_failure for a failure alert, notify_on_recovery
\* for a recovery), and to each of them at most once.
C30_SelectionRules ==
    event.server # 0 =>
        LET failure == event.status_after \in {"down", "degraded"}
            recovery == /\ event.status_before \in {"down", "degraded"}
                        /\ event.status_after = "up"
        IN /\ \A c \in Attempted :
                 /\ event.dispatched
                 /\ configs[c].server = event.server
                 /\ configs[c].enabled
                 /\ failure => configs[c].notify_on_failure
                 /\ recovery => configs[c].notify_on_recovery
                 /\ failure \/ recovery
           /\ AttemptedOnce

\* A recovery is attempted to the email recipient, while the webhook, enabled
\* but with notify_on_recovery off, gets nothing.
C30_Witness ==
    /\ event.status_before \in {"down", "degraded"}
    /\ event.status_after = "up"
    /\ 2 \in EnabledConfigs
    /\ ~configs[2].notify_on_recovery
    /\ Attempted = {1}

\* ----------------------------------------------------- fan-out properties
\* C25: every check of every server emits exactly one transition event, to
\* the group server_<id> of the checked server, whether or not the status
\* changed, while the dispatcher is called only for notable transitions.
C25_EveryCheckBroadcast ==
    /\ Len(outbox) = Len(ping_results)
    /\ \A i \in 1..Len(outbox) :
          /\ outbox[i].group = ping_results[i].server
          /\ outbox[i].ping = ping_results[i]
    /\ event.server # 0 =>
          /\ outbox[Len(outbox)].status = event.status_after
          /\ event.dispatched => event.status_before # event.status_after

\* After both servers were checked the first is checked again with no change
\* of its status: the dispatcher is not called, and its group gets the event
\* all the same.
C25_Witness ==
    /\ event.server = 1
    /\ event.status_before = event.status_after
    /\ ~event.dispatched
    /\ Len(outbox) = 3
    /\ outbox[3].group = 1
    /\ outbox[3].ping = LastPing
    /\ outbox[2].group = 2

\* --------------------------------------------------- caller properties
\* The server caller p is checking and the PingResult row of that check.
Current(p) == Head(jobs[p].pending)

CurrentPing(p) == PingRow(Current(p), jobs[p].data, jobs[p].now)

\* Caller p takes a step.
Steps(p) == jobs'[p] # jobs[p]

\* C28: the ServerStatus row is updated atomically per server: under every
\* interleaving of callers over one server, each save of a non-success
\* outcome leaves consecutive_failures one above the value the row had
\* before that save, and the saved row satisfies the status invariant.
C28_StatusUpdateAtomic ==
    [][\A p \in Callers :
          (jobs[p].pc = "save" /\ Steps(p)) =>
              LET before == server_status[Current(p)]
                  after == server_status'[Current(p)]
              IN /\ NonSuccess(jobs[p].data.status) =>
                       after.consecutive_failures =
                           before.consecutive_failures + 1
                 /\ after.status = "down" =>
                       after.consecutive_failures >= after.failure_threshold
                 /\ after.status = "degraded" =>
                       /\ 0 < after.consecutive_failures
                       /\ after.consecutive_failures < after.failure_threshold
                 /\ after.status = "up" => after.consecutive_failures = 0]_vars

\* The texts of the exceptions a probe can meet.
ExceptionTexts == {e.text : e \in NetEvents} \ {""}

\* C22: the manual-trigger endpoint and the command run one cycle and report
\* a count equal to the number of servers checked, with one entry per checked
\* server whose outcome is one of success, failure, timeout, error; no entry
\* carries the text of an exception.
C22_TriggerReport ==
    [][\A p \in Triggers :
        /\ (jobs[p].pc = "idle" /\ report'[p] # report[p]) =>
              /\ report'[p] = [served |-> TRUE, count |-> 0, results |-> <<>>]
              /\ ping_results' = ping_results
        /\ (jobs[p].pc = "probe" /\ jobs'[p].pc = "idle") =>
              LET r == report'[p]
                  n == Len(ping_results) - jobs[p].mark
              IN /\ r.served
                 /\ r.count = n
                 /\ Len(r.results) = n
                 /\ \A i \in 1..n :
                       LET ping == ping_results[jobs[p].mark + i] IN
                       /\ r.results[i][1] = ping.server
                       /\ r.results[i][2] = ping.status
                       /\ r.results[i][2] \in PING_STATUS_CHOICES
                       /\ r.results[i][2] \notin ExceptionTexts
                 /\ \A i, j \in 1..n :
                       i # j => r.results[i][1] # r.results[j][1]]_vars

\* The endpoint has answered a cycle over both servers in which the probe of
\* the first raised an exception and the connection to the second was refused.
C22_Witness ==
    /\ report["web"].served
    /\ report["web"].count = 2
    /\ report["web"].results = <<<<1, "error">>, <<2, "failure">>>>
    /\ ping_results[1].error_message \in ExceptionTexts
    /\ jobs["web"].pc = "idle"

\* The check of caller p is persisted: its PingResult row is the last of the
\* table and the ServerStatus row of its server is the one it saved.
Persisted(p) ==
    /\ Len(ping_results) = jobs[p].mark + Len(jobs[p].results) + 1
    /\ ping_results[Len(ping_results)] = CurrentPing(p)
    /\ Current(p) \in DOMAIN server_status
    /\ server_status[Current(p)] = jobs[p].row
    /\ server_status[Current(p)].last_check = jobs[p].now

\* The check of caller p has been broadcast.
Broadcast(p) ==
    /\ Len(outbox) = Len(ping_results)
    /\ outbox[Len(outbox)].ping = CurrentPing(p)

\* C26: for each server of a cycle the steps happen in the order probe,
\* PingResult persisted, ServerStatus persisted, broadcast emitted,
\* notification sends attempted; no broadcast and no notification of a check
\* is emitted before its PingResult and its updated ServerStatus are
\* persisted.
C26_PersistBeforeEmit ==
    [][\A p \in Triggers :
          (Steps(p) /\ jobs[p].pending # <<>>) =>
              /\ ping_results' # ping_results =>
                    /\ jobs[p].data.status \in PING_STATUS_CHOICES
                    /\ ping_results' = Append(ping_results, CurrentPing(p))
              /\ (server_status' # server_status /\ jobs[p].pc = "save") =>
                    /\ Len(ping_results) = jobs[p].mark + Len(jobs[p].results) + 1
                    /\ ping_results[Len(ping_results)] = CurrentPing(p)
                    /\ Len(outbox) < Len(ping_results)
              /\ outbox' # outbox => Persisted(p)
              /\ jobs[p].pc = "transport" => Persisted(p) /\ Broadcast(p)]_vars

\* A check whose status change was notified has gone through every step:
\* rows persisted, event broadcast, a send delivered at a time after 0.
C26_Witness ==
    \E p \in Triggers :
        /\ jobs[p].pc = "notify"
        /\ jobs[p].todo = <<>>
        /\ Persisted(p)
        /\ Broadcast(p)
        /\ configs[1].updated_at = clock
        /\ clock > 0

\* The probe and the persistence steps of the cycle of caller p.
Proceeds(p) == JobProbe(p) \/ JobCreate(p) \/ JobGet(p) \/ JobSave(p)

\* C27: a slow or failing notification send for one server does not delay the
\* other servers of the cycle: while the send is outstanding and servers
\* remain, a probe or persistence step of the cycle can be taken.
C27_SendDoesNotDelay ==
    \A p \in Triggers :
        (jobs[p].pc = "transport" /\ Len(jobs[p].pending) > 1) =>
            ENABLED Proceeds(p)

\* -------------------------------------------- cooldown cursor, as coded
\* C31: the cooldown cursor of a config is its last-modified timestamp.  Every
\* save of the config record, by creation, by an edit or by a send, stamps
\* updated_at with the time of the save, and an attempt at a notable
\* transition is skipped as rate limited exactly when the record was saved
\* less than min_interval before.
C31_CursorIsLastModified ==
    [][/\ \A c \in DOMAIN configs' :
             (c \notin DOMAIN configs \/ configs'[c] # configs[c]) =>
                 configs'[c].updated_at = clock
       /\ IsCheckStep =>
             \A i \in 1..Len(event'.attempts) :
                 LET a == event'.attempts[i]
                     I == configs[a.config].min_notification_interval
                 IN /\ a.cursor_before = configs[a.config].updated_at
                    /\ a.result = "rate_limited" <=>
                          (a.cursor_before # None /\ clock - a.cursor_before < I)]_vars

\* A recovery is skipped as rate limited although min_interval has passed
\* since the last send to the config: the record was edited after that send.
C31_Witness ==
    \E i \in 1..Len(event.attempts) :
        LET a == event.attempts[i]
            t == LastSendBefore(a.config)
        IN /\ a.result = "rate_limited"
           /\ a.kind = "recovery"
           /\ t # None
           /\ event.at - t >= configs[a.config].min_notification_interval
           /\ a.cursor_before > t

\* ------------------------------------------------------ account resolution
\* C32: the credit account of a server is resolved with tenant precedence.
\* When the server's organization has an account, an email attempt is checked
\* against that account and a send takes its credit from it, whatever the
\* owner's account holds; the owner's account is checked and charged only
\* when the server has no organization or the organization has no account;
\* with neither account nothing is checked or charged.
C32_TenantPrecedence ==
    \A i \in 1..Len(event.attempts) :
        LET a == event.attempts[i]
            server == servers[event.server]
            org == server.organization
            owner == server.owner
            charged == {h \in DOMAIN a.before : a.after[h] # a.before[h]}
            tried == a.result \in {"no_credits", "failed", "sent"}
            Pays(h) ==
                /\ a.result = "no_credits" <=> a.before[h].email_credits <= 0
                /\ a.result = "sent" =>
                      /\ charged = {h}
                      /\ a.after[h].email_credits = a.before[h].email_credits - 1
                /\ a.result # "sent" => charged = {}
        IN tried =>
              IF org # NoOrg /\ org \in DOMAIN a.before THEN Pays(org)
              ELSE IF owner # NoOwner /\ owner \in DOMAIN a.before THEN Pays(owner)
              ELSE a.result # "no_credits" /\ charged = {}

\* The organization's account is empty and the owner's is not: the email is
\* skipped for lack of credits and the owner's credit stays.
C32_Witness ==
    /\ servers[1].organization = "org1"
    /\ servers[1].owner = "user1"
    /\ DOMAIN accounts = {"org1", "user1"}
    /\ \E i \in 1..Len(event.attempts) :
          /\ event.attempts[i].result = "no_credits"
          /\ event.attempts[i].before["org1"].email_credits = 0
          /\ event.attempts[i].before["user1"].email_credits > 0
          /\ event.attempts[i].after = event.attempts[i].before

\* ------------------------------------------------------ probe classification
\* C33: for an http or https server the probe outcome is success exactly when
\* a response with a code < 500 is received, failure exactly when a response
\* with a code >= 500 is received, timeout on a timeout of the transport and
\* error on any other transport failure, whose text is the message;
\* response_time is present exactly when a response was received.  For a
\* protocol outside http, https, tcp and icmp the outcome is error whatever
\* the network would do.  The PingResult rows carry these outcomes.
C33_HttpClassification ==
    /\ \A s \in DOMAIN servers : \A net \in network :
          LET d == run_check(servers[s], net)
              got == net.kind = "response"
          IN /\ (servers[s].protocol \in {"http", "https"}
                 /\ net \in NetFor(servers[s].protocol)) =>
                   /\ d.status = "success" <=> (got /\ net.code < 500)
                   /\ d.status = "failure" <=> (got /\ net.code >= 500)
                   /\ d.status = "timeout" <=> net.kind = "timeout"
                   /\ d.status = "error" <=> net.kind = "exception"
                   /\ d.status = "error" => d.error_message = net.text
                   /\ d.response_time <=> got
                   /\ d.status_code = IF got THEN net.code ELSE None
             /\ servers[s].protocol \notin PROTOCOL_CHOICES =>
                   /\ d.status = "error"
                   /\ d.status_code = None
                   /\ ~d.response_time
                   /\ d.error_message = "unsupported protocol"
    /\ \A i \in 1..Len(ping_results) :
          LET r == ping_results[i]
              protocol == servers[r.server].protocol
          IN /\ protocol \in {"http", "https"} =>
                   /\ r.status = "success" <=>
                         (r.status_code # None /\ r.status_code < 500)
                   /\ r.status = "failure" <=>
                         (r.status_code # None /\ r.status_code >= 500)
                   /\ r.response_time <=> r.status_code # None
             /\ protocol \notin PROTOCOL_CHOICES => r.status = "error"

\* An https server has answered 499, 500 and a transport error in turn: a
\* success, a failure and an error with the exception's text.
C33_Witness ==
    /\ servers[1].protocol = "https"
    /\ Len(ping_results) = 3
    /\ ping_results[1].status = "success" /\ ping_results[1].status_code = 499
    /\ ping_results[1].response_time
    /\ ping_results[2].status = "failure" /\ ping_results[2].status_code = 500
    /\ ping_results[3].status = "error" /\ ~ping_results[3].response_time
    /\ ping_results[3].error_message = "connection refused"

\* ---------------------------------------------------------- frame of a cycle
\* C34: a check never alters failure_threshold or uptime_percentage of the
\* row it updates (a row it creates has the defaults), leaves last_down as it
\* was on a success outcome and last_up as it was on a non-success outcome,
\* and no step of a cycle changes the ServerStatus row of a server that is
\* not among the servers the cycle has still to visit, so none outside the
\* cycle's input set.
C34_CycleFrame ==
    [][/\ \A x \in DOMAIN server_status :
             x \notin Range(pending) => server_status'[x] = server_status[x]
       /\ IsCheckStep =>
             LET s == Head(pending)
                 before == IF s \in DOMAIN server_status THEN server_status[s]
                           ELSE DefaultStatus
                 after == server_status'[s]
                 outcome == ping_results'[Len(ping_results')].status
             IN /\ DOMAIN server_status' = DOMAIN server_status \cup {s}
                /\ \A x \in DOMAIN server_status \ {s} :
                      server_status'[x] = server_status[x]
                /\ after.failure_threshold = before.failure_threshold
                /\ after.uptime_percentage = before.uptime_percentage
                /\ outcome = "success" => after.last_down = before.last_down
                /\ outcome # "success" => after.last_up = before.last_up]_vars

\* A server that failed before has recovered in a manual run of its own
\* organization: the time of its failure, its threshold and its uptime are
\* as they were, and the untouched row of the other organization's server
\* has never been checked.
C34_Witness ==
    /\ event.server = 1
    /\ event.outcome = "success"
    /\ Checked.last_down # None
    /\ Checked.last_up > Checked.last_down
    /\ Checked.failure_threshold = 2
    /\ Checked.uptime_percentage = 50
    /\ results = <<<<1, "success">>>>
    /\ pending = <<>>
    /\ 2 \in DOMAIN server_status
    /\ server_status[2].last_check = None
    /\ server_status[2].uptime_percentage = 50

\* ------------------------------------------------------------- termination
\* The servers of the results list, in its order.
Processed == [i \in 1..Len(results) |-> results[i][1]]

\* C35: every started cycle runs to completion: a cycle that has started
\* eventually returns, and its results then list every server of its input
\* exactly once, in input order.
C35_CycleCompletes ==
    (running /\ results = <<>>) ~> (~running /\ Processed = ActiveServers)

\* A cycle over two servers has returned after the alert for the first one
\* failed in the mail transport; both servers are in its results, in order.
C35_Witness ==
    /\ ~running
    /\ Processed = <<1, 2>>
    /\ results[1][2] = "timeout"
    /\ Len(ping_results) = 2
    /\ event.server = 2
    /\ last_sent[1] = None

\* --------------------------------------------------- moves of a down server
\* C36: with a fixed failure_threshold, the only status a down server can
\* move to is up: a check of a down server leaves it down or, on a success,
\* makes it up, never degraded; no check sets a status to unknown, so an
\* unknown row has never been through a check.
C36_DownMovesOnlyToUp ==
    [][/\ \A s \in DOMAIN server_status' :
             server_status'[s].status = "unknown" =>
                 server_status'[s].last_check = None
       /\ IsCheckStep =>
             LET s == Head(pending)
                 before == IF s \in DOMAIN server_status
                           THEN server_status[s].status ELSE "unknown"
                 after == server_status'[s].status
                 outcome == ping_results'[Len(ping_results')].status
             IN /\ after # "unknown"
                /\ before = "down" =>
                      after = IF outcome = "success" THEN "up" ELSE "down"]_vars

\* A server with threshold 2 that the checks took down has failed once more
\* and then answered: it has moved from down to up, and its last failure is
\* the check before.
C36_Witness ==
    /\ event.status_before = "down"
    /\ event.status_after = "up"
    /\ event.failures_before = 3
    /\ Checked.failure_threshold = 2
    /\ Checked.last_down # None
    /\ Len(ping_results) = 2

\* ------------------------------------------------------------- first check
\* C37: a first check that succeeds (unknown to up) is a notable transition
\* but sends no notification on any channel, while a first check that fails
\* (unknown to degraded or down) sends a failure alert to the failure-enabled
\* configs: each enabled config of the server with notify_on_failure set gets
\* one failure alert, which goes out unless its channel is switched off, its
\* account has no credits or its transport fails.
C37_FirstCheckNotification ==
    event.status_before = "unknown" =>
        /\ event.dispatched
        /\ event.status_after = "up" => event.attempts = <<>>
        /\ event.status_after \in {"degraded", "down"} =>
              /\ Attempted = {c \in EnabledConfigs : configs[c].notify_on_failure}
              /\ AttemptedOnce
              /\ \A i \in 1..Len(event.attempts) :
                    /\ event.attempts[i].kind = "failure"
                    /\ event.attempts[i].result # "rate_limited"

\* ------------------------------------------------ skipped and failed sends
\* C38: a send that is skipped (cooldown, exhausted credits, channel
\* disabled) or that fails in the transport leaves both credit counters of
\* every account and the config's cooldown cursor unchanged, so the attempt
\* does not rate limit the next notable transition for that config; only a
\* send that went out moves the cursor.
C38_SkippedSendLeavesNoTrace ==
    \A i \in 1..Len(event.attempts) :
        LET a == event.attempts[i] IN
        /\ a.result \in {"rate_limited", "no_credits", "channel_disabled",
                         "failed", "sent"}
        /\ a.result # "sent" =>
              /\ a.after = a.before
              /\ a.cursor = a.cursor_before
        /\ a.cursor # a.cursor_before => a.result = "sent" /\ a.cursor = event.at

\* A webhook failed in its transport after the email of the same transition
\* was skipped, for its switched-off channel or for lack of credits: the
\* ledger and both cursors are as they were.
C38_Witness ==
    /\ Len(event.attempts) = 2
    /\ event.attempts[1].config = 1
    /\ event.attempts[1].result \in {"channel_disabled", "no_credits"}
    /\ event.attempts[2].config = 2
    /\ event.attempts[2].result = "failed"
    /\ event.at > 0
    /\ configs[1].updated_at = 0
    /\ configs[2].updated_at = 0
    /\ accounts = event.attempts[1].before

\* ------------------------------------------------------- tenant isolation
\* The Membership table: the organizations a user is a member of.
MemberOf(user) ==
    IF user = "user1" THEN {"org1"}
    ELSE IF user = "user2" THEN {"org2"}
    ELSE {}

\* The servers of the organizations of the user who requested the response.
Own == {s \in DOMAIN servers : servers[s].organization \in MemberOf(response.user)}

\* The rows of these servers that the request's filters select: ServerStatus
\* rows by server, PingResult rows by position.
OwnStatuses ==
    {s \in Own \cap DOMAIN server_status :
        /\ response.status # "" => server_status[s].status = response.status
        /\ response.server_id # {} => s \in response.server_id
        /\ response.since # None => server_status[s].updated_at > response.since}

OwnPings ==
    {i \in 1..Len(ping_results) :
        /\ ping_results[i].server \in Own
        /\ response.server_id # {} => ping_results[i].server \in response.server_id
        /\ response.since # None =>
              ping_results[i].check_timestamp > response.since}

\* C39: tenant isolation of the stream.  Whatever the request's status,
\* server_id, since and limit, every status and ping event of the response
\* concerns a server of an organization of the requesting user, and the
\* response is determined by the rows of these servers alone: its status
\* events are the selected rows of these servers, and its ping events are
\* the newest selected rows of these servers, up to the limit.
C39_StreamTenantIsolation ==
    [][response' # response =>
          LET body == response'.body
              shown == {i \in 1..Len(body) : body[i].event \in {"status", "ping"}}
              statuses == {i \in shown : body[i].event = "status"}
              pings == {i \in shown : body[i].event = "ping"}
              limit == response'.limit
          IN /\ \A i \in shown : body[i].server \in Own'
             /\ {body[i].server : i \in statuses} = OwnStatuses'
             /\ Cardinality(statuses) = Cardinality(OwnStatuses')
             /\ \A i \in pings : \E k \in OwnPings' :
                   /\ ping_results'[k].server = body[i].server
                   /\ ping_results'[k].check_timestamp = body[i].at
             /\ \A k \in OwnPings' :
                   (\A i \in pings :
                       \/ ping_results'[k].server # body[i].server
                       \/ ping_results'[k].check_timestamp # body[i].at)
                   => \A i \in pings :
                         body[i].at >= ping_results'[k].check_timestamp
             /\ limit >= 0 =>
                   Cardinality(pings) =
                      IF Cardinality(OwnPings') < limit
                      THEN Cardinality(OwnPings') ELSE limit]_vars

\* A member of the first organization has requested the stream, naming no
\* server, after both servers were checked: the response holds the status
\* and the ping of the first server and nothing of the second.
C39_Witness ==
    /\ response.served
    /\ response.user = "user1"
    /\ response.server_id = {}
    /\ response.since = None
    /\ response.limit = DefaultPingLimit
    /\ DOMAIN server_status = {1, 2}
    /\ Len(ping_results) >= 2
    /\ {response.body[i].server : i \in 2..(Len(response.body) - 1)} = {1}
    /\ Len(response.body) >= 4

\* The servers of the organizations of the user of connection c.
OwnOf(c) ==
    {s \in DOMAIN servers : servers[s].organization \in MemberOf(sockets[c].user)}

\* C40: tenant isolation of the subscription surface.  Whatever latest or
\* subscribe message an authenticated observer sends, with or without
\* server_ids, every status and ping of a snapshot it receives and every
\* update pushed to it concerns a server of an organization it is a member
\* of.
C40_SubscriptionTenantIsolation ==
    \A c \in DOMAIN sockets :
        \A i \in 1..Len(sockets[c].inbox) :
            LET frame == sockets[c].inbox[i] IN
            frame.type \in {"latest", "update"} =>
                /\ \A k \in 1..Len(frame.pings) : frame.pings[k].server \in OwnOf(c)
                /\ \A k \in 1..Len(frame.statuses) :
                      frame.statuses[k].server \in OwnOf(c)

====
